---- MODULE Spec2Model ----
(***************************************************************************)
(* A model of the C interpreter of santoshxshrestha/cweb                   *)
(* (src/wasm/src/lib.rs).  The interpreter works on the source text by     *)
(* substring search, so the model keeps the text as TLA+ strings and       *)
(* translates the string operations of the Rust code one by one.  Offsets  *)
(* are the 0-based offsets of the Rust code, and -1 stands for None.  The  *)
(* sources are ASCII, so byte offsets and char offsets agree.              *)
(***************************************************************************)
EXTENDS Integers, Sequences, FiniteSets, TLC

VARIABLES
    code,           \* the source handed to compile_and_run_c
    status,         \* "start", "running", "failed", "panic", "returned"
    stack,          \* the pending calls and loops of the Rust call stack
    variables,      \* CInterpreter.variables
    heap,           \* Memory.heap
    next_address,   \* Memory.next_address
    address_map,    \* Memory.address_map
    output,         \* CInterpreter.output
    loop_break,     \* CInterpreter.loop_break
    loop_continue,  \* CInterpreter.loop_continue
    error,          \* the Err value unwinding to compile_and_run_c
    result,         \* the CompilationResult that was returned last
    trace,          \* history: the statements handed to execute_statement
    last_access,    \* history: the last Memory::read / Memory::write
    calls           \* history: the source and result of each earlier call

vars == <<code, status, stack, variables, heap, next_address, address_map,
          output, loop_break, loop_continue, error, result, trace,
          last_access, calls>>

(***************************************************************************)
(* Bounds of the model.                                                    *)
(***************************************************************************)
\* The calls of compile_and_run_c in one behaviour of SpecCalls
MaxCalls == 3
\* Integer literals of more than MaxDigits digits are outside the model
\* (TLC's integers are 32 bits wide; the program's are i64).
MaxDigits == 9

(***************************************************************************)
(* Rust's str operations.                                                  *)
(***************************************************************************)
Min(S) == CHOOSE x \in S : \A y \in S : x <= y
Max(S) == CHOOSE x \in S : \A y \in S : x >= y

\* s.chars().nth(i), as a one-character string
Ch(s, i) == SubSeq(s, i + 1, i + 1)
\* &s[a..b] and &s[a..]
Slice(s, a, b) == SubSeq(s, a + 1, b)
SliceFrom(s, a) == SubSeq(s, a + 1, Len(s))

starts_with(s, p) == Len(p) <= Len(s) /\ SubSeq(s, 1, Len(p)) = p
ends_with(s, p) == Len(p) <= Len(s) /\ SubSeq(s, Len(s) - Len(p) + 1, Len(s)) = p

Occurrences(s, p) ==
    {i \in 0..(Len(s) - Len(p)) : SubSeq(s, i + 1, i + Len(p)) = p}
\* s.find(p) and s.rfind(p)
find(s, p) == IF Occurrences(s, p) = {} THEN -1 ELSE Min(Occurrences(s, p))
rfind(s, p) == IF Occurrences(s, p) = {} THEN -1 ELSE Max(Occurrences(s, p))
\* s[from..].find(p) + from
find_from(s, p, from) ==
    LET I == {i \in Occurrences(s, p) : i >= from}
    IN  IF I = {} THEN -1 ELSE Min(I)
contains(s, p) == Occurrences(s, p) # {}

\* char::is_whitespace, on ASCII
Whitespace == {" ", "\t", "\n", "\r"}

trim_start_set(s, C) ==
    LET I == {i \in 0..(Len(s) - 1) : Ch(s, i) \notin C}
    IN  IF I = {} THEN "" ELSE SliceFrom(s, Min(I))
trim_end_set(s, C) ==
    LET I == {i \in 0..(Len(s) - 1) : Ch(s, i) \notin C}
    IN  IF I = {} THEN "" ELSE Slice(s, 0, Max(I) + 1)
trim(s) == trim_end_set(trim_start_set(s, Whitespace), Whitespace)
trim_matches(s, c) == trim_end_set(trim_start_set(s, {c}), {c})
trim_start_matches(s, c) == trim_start_set(s, {c})
trim_end_matches(s, c) == trim_end_set(s, {c})

\* s.replace(from, to): the non-overlapping matches, left to right
RECURSIVE replace(_, _, _)
replace(s, from, to) ==
    LET p == find(s, from)
    IN  IF p = -1 THEN s
        ELSE Slice(s, 0, p) \o to \o replace(SliceFrom(s, p + Len(from)), from, to)

\* s.split(sep).collect() and s.splitn(2, sep).collect()
RECURSIVE split(_, _)
split(s, sep) ==
    LET p == find(s, sep)
    IN  IF p = -1 THEN <<s>>
        ELSE <<Slice(s, 0, p)>> \o split(SliceFrom(s, p + Len(sep)), sep)
splitn2(s, sep) ==
    LET p == find(s, sep)
    IN  IF p = -1 THEN <<s>> ELSE <<Slice(s, 0, p), SliceFrom(s, p + Len(sep))>>

\* s.lines().collect(): split at "\n", a final empty line dropped, a
\* trailing "\r" of a line dropped
lines(s) ==
    LET raw == split(s, "\n")
        cut == IF raw[Len(raw)] = "" THEN SubSeq(raw, 1, Len(raw) - 1) ELSE raw
    IN  [i \in 1..Len(cut) |->
            IF ends_with(cut[i], "\r") THEN Slice(cut[i], 0, Len(cut[i]) - 1)
            ELSE cut[i]]

\* s.split_whitespace().last()
last_word(s) ==
    LET t == trim(s)
        I == {i \in 0..(Len(t) - 1) : Ch(t, i) \in Whitespace}
    IN  IF I = {} THEN t ELSE SliceFrom(t, Max(I) + 1)

(***************************************************************************)
(* Numbers and text.                                                       *)
(***************************************************************************)
Digits == "0123456789"
HexDigits == "0123456789abcdef"
IsDigit(c) == Len(c) = 1 /\ contains(Digits, c)
AllDigits(s) == Len(s) >= 1 /\ \A i \in 0..(Len(s) - 1) : IsDigit(Ch(s, i))

RECURSIVE DigitsValue(_)
DigitsValue(s) ==
    IF s = "" THEN 0
    ELSE 10 * DigitsValue(Slice(s, 0, Len(s) - 1)) + find(Digits, Ch(s, Len(s) - 1))

None == [some |-> FALSE, v |-> 0]
Some(x) == [some |-> TRUE, v |-> x]

\* str::parse::<i64>(): an optional sign, then digits only
parse_i64(s) ==
    LET neg == starts_with(s, "-")
        body == IF neg \/ starts_with(s, "+") THEN SliceFrom(s, 1) ELSE s
    IN  IF AllDigits(body) /\ Len(body) <= MaxDigits
        THEN Some(IF neg THEN -DigitsValue(body) ELSE DigitsValue(body))
        ELSE None

\* str::parse::<f64>() followed by `as i64`, for the decimal forms
\* [sign] digits [. digits] and [sign] . digits; the value is truncated
\* towards zero.  (Exponent forms, inf and nan are outside the model.)
parse_f64_as_i64(s) ==
    LET neg == starts_with(s, "-")
        body == IF neg \/ starts_with(s, "+") THEN SliceFrom(s, 1) ELSE s
        dot == find(body, ".")
        ip == IF dot = -1 THEN body ELSE Slice(body, 0, dot)
        fp == IF dot = -1 THEN "" ELSE SliceFrom(body, dot + 1)
        wellFormed == /\ (ip = "" \/ AllDigits(ip))
                      /\ (fp = "" \/ AllDigits(fp))
                      /\ (ip # "" \/ fp # "")
                      /\ Len(ip) <= MaxDigits
    IN  IF wellFormed
        THEN Some(IF neg THEN -DigitsValue(ip) ELSE DigitsValue(ip))
        ELSE None

RECURSIVE NatToBase(_, _)
NatToBase(n, b) ==
    IF n < b THEN Ch(HexDigits, n)
    ELSE NatToBase(n \div b, b) \o Ch(HexDigits, n % b)

\* i64::to_string
to_string(i) == IF i < 0 THEN "-" \o NatToBase(-i, 10) ELSE NatToBase(i, 10)

\* The two's complement digits of a negative i64 in base b (16 or 8):
\* 2^64 + i, written without 64-bit arithmetic as the digitwise complement
\* of -i - 1 over the full width.
RECURSIVE ComplementDigits(_, _, _)
ComplementDigits(m, b, width) ==
    IF width = 0 THEN ""
    ELSE ComplementDigits(m \div b, b, width - 1) \o Ch(HexDigits, (b - 1) - (m % b))
\* format!("{:x}", i)
format_x(i) == IF i >= 0 THEN NatToBase(i, 16) ELSE ComplementDigits(-i - 1, 16, 16)
\* format!("{:o}", i): 64 bits are 21 octal digits and one leading bit
format_o(i) ==
    IF i >= 0 THEN NatToBase(i, 8) ELSE "1" \o ComplementDigits(-i - 1, 8, 21)

\* The characters of the model, by code point.  "\f" stands for the NUL
\* character, which a TLA+ string cannot hold.
NUL == "\f"
PrintableLow ==
    " !\"#$%&'()*+,-./0123456789:;<=>?@ABCDEFGHIJKLMNOPQRSTUVWXYZ[\\]^_"
PrintableHigh == "abcdefghijklmnopqrstuvwxyz{|}~"
\* c as i64 (code 96, the backquote, cannot be written in a TLA+ string)
char_code(c) ==
    IF c = NUL THEN 0
    ELSE IF c = "\t" THEN 9
    ELSE IF c = "\n" THEN 10
    ELSE IF c = "\r" THEN 13
    ELSE IF contains(PrintableLow, c) THEN 32 + find(PrintableLow, c)
    ELSE 97 + find(PrintableHigh, c)
\* n as u8 as char, then to_string
char_of(n) ==
    LET u == n % 256
    IN  IF u = 0 THEN NUL
        ELSE IF u = 9 THEN "\t"
        ELSE IF u = 10 THEN "\n"
        ELSE IF u = 13 THEN "\r"
        ELSE IF u >= 32 /\ u <= 95 THEN Ch(PrintableLow, u - 32)
        ELSE IF u >= 97 /\ u <= 126 THEN Ch(PrintableHigh, u - 97)
        ELSE "?"
\* s.chars().next().unwrap_or(NUL)
first_char_or_nul(s) == IF s = "" THEN NUL ELSE Ch(s, 0)

(***************************************************************************)
(* enum Value.  Every variant is a record of the same shape: n holds the   *)
(* number (Int, Pointer, Bool as 0/1, Char as its code point, Float as     *)
(* its integral value: the floats of the modelled programs are integral),  *)
(* s the text of a String, a the elements of an Array.                     *)
(***************************************************************************)
Value(tag, n, s, a) == [tag |-> tag, n |-> n, s |-> s, a |-> a]
VInt(i) == Value("Int", i, "", <<>>)
VFloat(f) == Value("Float", f, "", <<>>)
VString(s) == Value("String", 0, s, <<>>)
VChar(c) == Value("Char", char_code(c), "", <<>>)
VBool(b) == Value("Bool", IF b THEN 1 ELSE 0, "", <<>>)
VArray(a) == Value("Array", 0, "", a)
VPointer(addr) == Value("Pointer", addr, "", <<>>)

\* HashMap::insert and HashMap::get on a function
insert(f, k, v) == (k :> v) @@ f
has(f, k) == k \in DOMAIN f
EmptyMap == <<>>

(***************************************************************************)
(* The interpreter as a record (struct CInterpreter with its Memory), and  *)
(* Result<T, String>.  A Rust panic is a third outcome: the call does not  *)
(* return.                                                                 *)
(***************************************************************************)
Ok(self, val) == [r |-> "Ok", self |-> self, val |-> val, msg |-> ""]
Err(self, msg) == [r |-> "Err", self |-> self, val |-> 0, msg |-> msg]
Panic(self, msg) == [r |-> "Panic", self |-> self, val |-> 0, msg |-> msg]

NoAccess == [op |-> "none", addr |-> 0, hit |-> TRUE,
             heap |-> EmptyMap, address_map |-> EmptyMap, next_address |-> 0]
Access(self, op, addr) ==
    [op |-> op, addr |-> addr, hit |-> has(self.heap, addr),
     heap |-> self.heap, address_map |-> self.address_map,
     next_address |-> self.next_address]

SegmentationFault(addr) ==
    "Segmentation fault: invalid memory address 0x" \o format_x(addr)

\* Memory::allocate
allocate(self, value) ==
    [self |-> [self EXCEPT !.heap = insert(@, self.next_address, value),
                           !.next_address = @ + 8],
     addr |-> self.next_address]

\* An address-of that records a new address without allocating its cell
get_address_unallocated(self, var_name, value) ==
    IF has(self.address_map, var_name)
    THEN [self |-> self, addr |-> self.address_map[var_name]]
    ELSE [self |-> [self EXCEPT !.address_map = insert(@, var_name, self.next_address),
                                !.next_address = @ + 8],
          addr |-> self.next_address]

\* An address-of that allocates a cell whether the name has one or not
get_address_of_fresh(self, var_name, value) ==
    [self |-> [self EXCEPT !.heap = insert(@, self.next_address, value),
                           !.address_map = insert(@, var_name, self.next_address),
                           !.next_address = @ + 8],
     addr |-> self.next_address]

\* Memory::get_address_of
get_address_of(self, var_name, value) ==
    IF has(self.address_map, var_name)
    THEN [self |-> self, addr |-> self.address_map[var_name]]
    ELSE [self |-> [self EXCEPT !.heap = insert(@, self.next_address, value),
                                !.address_map = insert(@, var_name, self.next_address),
                                !.next_address = @ + 8],
          addr |-> self.next_address]

\* Memory::read
read(self, addr) ==
    LET seen == [self EXCEPT !.last_access = Access(self, "read", addr)]
    IN  IF has(self.heap, addr) THEN Ok(seen, self.heap[addr])
        ELSE Err(seen, SegmentationFault(addr))

\* A write that adds the cell when the address is not a key of heap
write_extending(self, addr, value) ==
    Ok([self EXCEPT !.last_access = Access(self, "write", addr),
                    !.heap = insert(@, addr, value)],
       TRUE)

\* Memory::write
write(self, addr, value) ==
    LET seen == [self EXCEPT !.last_access = Access(self, "write", addr)]
    IN  IF has(self.heap, addr)
        THEN Ok([seen EXCEPT !.heap = insert(@, addr, value)], TRUE)
        ELSE Err(seen, SegmentationFault(addr))

\* Memory::update_variable_address
update_variable_address(self, var_name, value) ==
    IF has(self.address_map, var_name)
    THEN [self EXCEPT !.heap = insert(@, self.address_map[var_name], value)]
    ELSE self

\* self.variables.insert(name, value)
set_variable(self, var_name, value) ==
    [self EXCEPT !.variables = insert(@, var_name, value)]

(***************************************************************************)
(* i64 arithmetic.                                                         *)
(***************************************************************************)
Abs(a) == IF a < 0 THEN -a ELSE a
\* Rust's / and % truncate towards zero
TruncDiv(a, b) ==
    IF (a < 0) = (b < 0) THEN Abs(a) \div Abs(b) ELSE -(Abs(a) \div Abs(b))
TruncRem(a, b) == a - b * TruncDiv(a, b)

BitOf(op, x, y) ==
    CASE op = "|" -> IF x = 1 \/ y = 1 THEN 1 ELSE 0
      [] op = "&" -> IF x = 1 /\ y = 1 THEN 1 ELSE 0
      [] op = "^" -> IF x # y THEN 1 ELSE 0
\* |, & and ^ on two's complement integers: bit by bit, down to the sign
RECURSIVE Bitwise(_, _, _)
Bitwise(op, a, b) ==
    IF a \in {0, -1} /\ b \in {0, -1}
    THEN -BitOf(op, -a, -b)
    ELSE BitOf(op, a % 2, b % 2) + 2 * Bitwise(op, a \div 2, b \div 2)

RECURSIVE Pow2(_)
Pow2(n) == IF n = 0 THEN 1 ELSE 2 * Pow2(n - 1)

\* The operator applications of evaluate_numeric_expression
apply_operator(self, op, left, right) ==
    CASE op \in {"|", "&", "^"} -> Ok(self, Bitwise(op, left, right))
      [] op = "<<" ->
            IF right < 0 \/ right >= 64
            THEN Panic(self, "attempt to shift left with overflow")
            ELSE Ok(self, left * Pow2(right))
      [] op = ">>" ->
            IF right < 0 \/ right >= 64
            THEN Panic(self, "attempt to shift right with overflow")
            ELSE Ok(self, left \div Pow2(right))
      [] op = "+" -> Ok(self, left + right)
      [] op = "-" -> Ok(self, left - right)
      [] op = "*" -> Ok(self, left * right)
      [] op = "/" ->
            IF right = 0 THEN Err(self, "Error: Division by zero")
            ELSE Ok(self, TruncDiv(left, right))
      [] op = "%" ->
            IF right = 0
            THEN Panic(self, "attempt to calculate the remainder with a divisor of zero")
            ELSE Ok(self, TruncRem(left, right))

\* The match on a Value that yields its number (lib.rs 1486-1494)
value_as_i64(self, value) ==
    CASE value.tag \in {"Int", "Float", "Char", "Bool", "Pointer"} -> Ok(self, value.n)
      [] value.tag = "String" -> Err(self, "Cannot convert string to number")
      [] value.tag = "Array" -> Err(self, "Cannot convert array to number")

\* The depth counter of the right-to-left scans: ')' seen minus '(' seen
\* to the right of offset i
DepthRight(expr, i) ==
    Cardinality({j \in (i + 1)..(Len(expr) - 1) : Ch(expr, j) = ")"})
    - Cardinality({j \in (i + 1)..(Len(expr) - 1) : Ch(expr, j) = "("})
\* The first offset, from the right, at depth 0 that Hit accepts
scan_right(expr, Hit(_)) ==
    LET I == {i \in 0..(Len(expr) - 1) : Hit(i) /\ DepthRight(expr, i) = 0}
    IN  IF I = {} THEN -1 ELSE Max(I)

IsOr(expr, i) ==
    /\ Ch(expr, i) = "|"
    /\ (i = 0 \/ Ch(expr, i - 1) # "|")
    /\ (i = Len(expr) - 1 \/ Ch(expr, i + 1) # "|")
IsAnd(expr, i) ==
    /\ Ch(expr, i) = "&"
    /\ (i = 0 \/ Ch(expr, i - 1) # "&")
    /\ (i = Len(expr) - 1 \/ Ch(expr, i + 1) # "&")
IsXor(expr, i) == Ch(expr, i) = "^"
IsAdditive(expr, i) ==
    \/ Ch(expr, i) = "+" /\ i > 0
    \/ Ch(expr, i) = "-" /\ i > 0 /\ Ch(expr, i - 1) \notin {"e", "E"}
IsMultiplicative(expr, i) == Ch(expr, i) \in {"*", "/", "%"}

\* A call of a method of the interpreter, by its name, with its argument
RECURSIVE call(_, _, _)

\* let left = eval(l)?; let right = eval(r)?; then the operator
binary(self, l, op, r) ==
    LET L == call("evaluate_numeric_expression", self, l)
    IN  IF L.r # "Ok" THEN L
        ELSE LET R == call("evaluate_numeric_expression", L.self, r)
             IN  IF R.r # "Ok" THEN R
                 ELSE apply_operator(R.self, op, L.val, R.val)

\* expr[..i] op expr[i+1..], for the operator character at offset i
split_at(self, expr, i) ==
    binary(self, Slice(expr, 0, i), Ch(expr, i), SliceFrom(expr, i + 1))

\* The array element access of evaluate_numeric_expression (lib.rs
\* 1498-1516): r = "Skip" when the code falls through to the next form
array_element(self, expr) ==
    LET bracket_pos == find(expr, "[")
        var_name == trim(Slice(expr, 0, bracket_pos))
        bracket_end == find(expr, "]")
    IN  IF bracket_end = -1 THEN Err(self, "Invalid array syntax")
        ELSE IF bracket_end < bracket_pos + 1
        THEN Panic(self, "slice index starts after its end")
        ELSE LET I == call("evaluate_numeric_expression",
                          self, Slice(expr, bracket_pos + 1, bracket_end))
             IN  IF I.r # "Ok" THEN I
                 ELSE IF /\ has(I.self.variables, var_name)
                         /\ I.self.variables[var_name].tag = "Array"
                         /\ I.val >= 0
                         /\ I.val < Len(I.self.variables[var_name].a)
                 THEN LET elem == I.self.variables[var_name].a[I.val + 1]
                      IN  IF elem.tag \in {"Int", "Float", "Char", "Bool"}
                          THEN Ok(I.self, elem.n)
                          ELSE Err(I.self, "Invalid array element type")
                 ELSE [r |-> "Skip", self |-> I.self, val |-> 0, msg |-> ""]

\* The forms of evaluate_numeric_expression after the array element
\* access (lib.rs 1518-1693)
numeric_rest(self, expr) ==
    IF starts_with(expr, "*")
    THEN LET ptr_expr == trim(SliceFrom(expr, 1))
         IN  IF has(self.variables, ptr_expr) /\ self.variables[ptr_expr].tag = "Pointer"
             THEN LET V == read(self, self.variables[ptr_expr].n)
                  IN  IF V.r # "Ok" THEN V
                      ELSE IF V.val.tag \in {"Int", "Float", "Char", "Bool"}
                      THEN Ok(V.self, V.val.n)
                      ELSE Err(V.self, "Cannot dereference to numeric value")
             ELSE Err(self, "'" \o ptr_expr \o "' is not a valid pointer")
    ELSE IF starts_with(expr, "&")
    THEN LET var_name == trim(SliceFrom(expr, 1))
         IN  IF has(self.variables, var_name)
             THEN LET A == get_address_of(self, var_name, self.variables[var_name])
                  IN  Ok(A.self, A.addr)
             ELSE Err(self, "Variable '" \o var_name \o "' not found")
    ELSE IF contains(expr, "?") /\ contains(expr, ":")
    THEN LET q_pos == find(expr, "?")
             c_pos == rfind(expr, ":")
         IN  IF c_pos < q_pos + 1 THEN Panic(self, "slice index starts after its end")
             ELSE LET C == call("evaluate_condition", self, trim(Slice(expr, 0, q_pos)))
                  IN  IF C.r # "Ok" THEN C
                      ELSE IF C.val
                      THEN call("evaluate_numeric_expression",
                               C.self, trim(Slice(expr, q_pos + 1, c_pos)))
                      ELSE call("evaluate_numeric_expression",
                               C.self, trim(SliceFrom(expr, c_pos + 1)))
    ELSE IF starts_with(expr, "(") /\ ends_with(expr, ")")
    THEN call("evaluate_numeric_expression", self, Slice(expr, 1, Len(expr) - 1))
    ELSE IF scan_right(expr, LAMBDA i : IsOr(expr, i)) # -1
    THEN split_at(self, expr, scan_right(expr, LAMBDA i : IsOr(expr, i)))
    ELSE IF scan_right(expr, LAMBDA i : IsAnd(expr, i)) # -1
    THEN split_at(self, expr, scan_right(expr, LAMBDA i : IsAnd(expr, i)))
    ELSE IF scan_right(expr, LAMBDA i : IsXor(expr, i)) # -1
    THEN split_at(self, expr, scan_right(expr, LAMBDA i : IsXor(expr, i)))
    ELSE IF contains(expr, "<<")
    THEN binary(self, trim(splitn2(expr, "<<")[1]), "<<", trim(splitn2(expr, "<<")[2]))
    ELSE IF contains(expr, ">>")
    THEN binary(self, trim(splitn2(expr, ">>")[1]), ">>", trim(splitn2(expr, ">>")[2]))
    ELSE IF scan_right(expr, LAMBDA i : IsAdditive(expr, i)) # -1
    THEN split_at(self, expr, scan_right(expr, LAMBDA i : IsAdditive(expr, i)))
    ELSE IF scan_right(expr, LAMBDA i : IsMultiplicative(expr, i)) # -1
    THEN split_at(self, expr, scan_right(expr, LAMBDA i : IsMultiplicative(expr, i)))
    ELSE IF starts_with(expr, "-")
    THEN LET V == call("evaluate_numeric_expression", self, SliceFrom(expr, 1))
         IN  IF V.r # "Ok" THEN V ELSE Ok(V.self, -V.val)
    ELSE IF starts_with(expr, "~")
    THEN LET V == call("evaluate_numeric_expression", self, SliceFrom(expr, 1))
         IN  IF V.r # "Ok" THEN V ELSE Ok(V.self, -V.val - 1)
    ELSE Err(self, "Error: Cannot evaluate expression: " \o expr)

\* CInterpreter::evaluate_numeric_expression
evaluate_numeric_expression(self, expr0) ==
    LET expr == trim(expr0)
    IN  IF parse_i64(expr).some THEN Ok(self, parse_i64(expr).v)
        ELSE IF parse_f64_as_i64(expr).some THEN Ok(self, parse_f64_as_i64(expr).v)
        ELSE IF has(self.variables, expr) THEN value_as_i64(self, self.variables[expr])
        ELSE IF contains(expr, "[")
        THEN LET E == array_element(self, expr)
             IN  IF E.r = "Skip" THEN numeric_rest(E.self, expr) ELSE E
        ELSE numeric_rest(self, expr)

\* The comparisons of evaluate_condition: splitn(2, op), both sides numeric
compare(self, condition, op) ==
    LET parts == splitn2(condition, op)
        L == call("evaluate_numeric_expression", self, trim(parts[1]))
    IN  IF L.r # "Ok" THEN L
        ELSE LET R == call("evaluate_numeric_expression", L.self, trim(parts[2]))
             IN  IF R.r # "Ok" THEN R
                 ELSE Ok(R.self,
                         CASE op = "<=" -> L.val <= R.val
                           [] op = ">=" -> L.val >= R.val
                           [] op = "==" -> L.val = R.val
                           [] op = "!=" -> L.val # R.val
                           [] op = "<" -> L.val < R.val
                           [] op = ">" -> L.val > R.val)

\* The && and || of evaluate_condition: both operands are evaluated
logical(self, condition, op) ==
    LET parts == splitn2(condition, op)
        L == call("evaluate_condition", self, trim(parts[1]))
    IN  IF L.r # "Ok" THEN L
        ELSE LET R == call("evaluate_condition", L.self, trim(parts[2]))
             IN  IF R.r # "Ok" THEN R
                 ELSE Ok(R.self, IF op = "&&" THEN L.val /\ R.val ELSE L.val \/ R.val)

\* CInterpreter::evaluate_condition
evaluate_condition(self, condition0) ==
    LET condition == trim(condition0)
    IN  IF contains(condition, "&&") THEN logical(self, condition, "&&")
        ELSE IF contains(condition, "||") THEN logical(self, condition, "||")
        ELSE IF starts_with(condition, "!")
        THEN LET V == call("evaluate_condition", self, trim(SliceFrom(condition, 1)))
             IN  IF V.r # "Ok" THEN V ELSE Ok(V.self, ~V.val)
        ELSE IF contains(condition, "<=") THEN compare(self, condition, "<=")
        ELSE IF contains(condition, ">=") THEN compare(self, condition, ">=")
        ELSE IF contains(condition, "==") THEN compare(self, condition, "==")
        ELSE IF contains(condition, "!=") THEN compare(self, condition, "!=")
        ELSE IF contains(condition, "<") /\ ~contains(condition, "<<")
        THEN compare(self, condition, "<")
        ELSE IF contains(condition, ">") /\ ~contains(condition, ">>")
        THEN compare(self, condition, ">")
        ELSE LET V == call("evaluate_numeric_expression", self, condition)
             IN  IF V.r # "Ok" THEN V ELSE Ok(V.self, V.val # 0)

\* CInterpreter::evaluate_value_expression
evaluate_value_expression(self, expr0) ==
    LET expr == trim(expr0)
    IN  IF starts_with(expr, "\"") /\ ends_with(expr, "\"")
        THEN Ok(self, VString(trim_matches(expr, "\"")))
        ELSE IF starts_with(expr, "'") /\ ends_with(expr, "'")
        THEN Ok(self, VChar(first_char_or_nul(trim_matches(expr, "'"))))
        ELSE IF has(self.variables, expr) THEN Ok(self, self.variables[expr])
        ELSE LET V == call("evaluate_numeric_expression", self, expr)
             IN  IF V.r # "Ok" THEN V ELSE Ok(V.self, VInt(V.val))

(***************************************************************************)
(* The library-call statements.                                            *)
(***************************************************************************)
\* The elements of a set of offsets, in increasing order
Ascending(S) ==
    [k \in 1..Cardinality(S) |-> CHOOSE x \in S : Cardinality({y \in S : y < x}) = k - 1]

\* The text between the offsets of cuts: piece k ends before cut k, or
\* with it when the cut belongs to the piece; the last piece is the rest
Pieces(s, cuts, with_cut) ==
    LET c == Ascending(cuts)
        n == Len(c)
    IN  [k \in 1..(n + 1) |->
            Slice(s, IF k = 1 THEN 0 ELSE c[k - 1] + 1,
                     IF k = n + 1 THEN Len(s) ELSE c[k] + (IF with_cut THEN 1 ELSE 0))]

\* CInterpreter::split_args.  The loop over args.chars() keeps in_string
\* (toggled by every quote) and paren_depth; they are counted here from
\* the characters before an offset.  A comma outside strings and
\* parentheses ends an argument; empty arguments are dropped.
split_args(args) ==
    LET before(i, c) == Cardinality({j \in 0..(i - 1) : Ch(args, j) = c})
        in_string(i) == before(i, "\"") % 2 = 1
        paren_depth(i) == before(i, "(") - before(i, ")")
        cuts == {i \in 0..(Len(args) - 1) :
                    Ch(args, i) = "," /\ ~in_string(i) /\ paren_depth(i) = 0}
        current == SelectSeq(Pieces(args, cuts, FALSE), LAMBDA piece : piece # "")
    IN  [k \in 1..Len(current) |-> trim(current[k])]

\* The escape sequences of handle_printf, in the order of the code
printf_escapes(format_str) ==
    replace(replace(replace(replace(replace(format_str,
        "\\n", "\n"), "\\t", "\t"), "\\\\", "\\"), "\\r", "\r"), "\\0", NUL)

\* The specifiers with the hexadecimal and octal ones first
format_specs_radix_first ==
    <<"%x", "%o", "%p", "%d", "%i", "%f", "%lf", "%c", "%s", "%ld", "%u">>

\* let format_specs = vec![..] (lib.rs 751)
format_specs == <<"%p", "%d", "%i", "%f", "%lf", "%c", "%s", "%ld", "%u", "%x", "%o">>

\* The replacement text of handle_printf for one value and one specifier
printf_replacement(value, spec) ==
    CASE value.tag = "Int" ->
            IF spec = "%x" THEN format_x(value.n)
            ELSE IF spec = "%o" THEN format_o(value.n)
            ELSE to_string(value.n)
      [] value.tag = "Float" -> to_string(value.n)
      [] value.tag = "Char" -> char_of(value.n)
      [] value.tag = "String" -> value.s
      [] value.tag = "Bool" -> to_string(value.n)
      [] value.tag = "Array" -> "[array]"
      [] value.tag = "Pointer" ->
            IF spec = "%x" THEN format_x(value.n) ELSE "0x" \o format_x(value.n)

\* result.replace_range(pos..pos + spec.len(), replacement) at result.find(spec)
replace_first(text, spec, replacement) ==
    LET pos == find(text, spec)
    IN  IF pos = -1 THEN text
        ELSE Slice(text, 0, pos) \o replacement \o SliceFrom(text, pos + Len(spec))

\* The specifier loops of handle_printf: `for spec in format_specs`, from
\* the k-th specifier, with the `while` inside it
RECURSIVE printf_substitute(_, _, _, _, _)
printf_substitute(self, text, parts, arg_index, k) ==
    IF k > Len(format_specs) THEN Ok(self, text)
    ELSE IF contains(text, format_specs[k]) /\ arg_index < Len(parts)
    THEN LET V == call("evaluate_value_expression", self, parts[arg_index + 1])
         IN  IF V.r # "Ok" THEN V
             ELSE printf_substitute(
                      V.self,
                      replace_first(text, format_specs[k],
                                    printf_replacement(V.val, format_specs[k])),
                      parts, arg_index + 1, k)
    ELSE printf_substitute(self, text, parts, arg_index, k + 1)

\* CInterpreter::handle_printf
handle_printf(self, statement) ==
    LET start == find(statement, "(")
        end == rfind(statement, ")")
    IN  IF start = -1 \/ end = -1 THEN Err(self, "Error: Invalid printf syntax")
        ELSE IF end < start + 1 THEN Panic(self, "slice index starts after its end")
        ELSE LET parts == split_args(Slice(statement, start + 1, end))
             IN  IF parts = <<>> THEN Ok(self, TRUE)
                 ELSE LET format_str == trim_matches(trim_matches(parts[1], "\""), "'")
                          R == printf_substitute(self, printf_escapes(format_str),
                                                 parts, 1, 1)
                      IN  IF R.r # "Ok" THEN R
                          ELSE Ok([R.self EXCEPT !.output = @ \o R.val], TRUE)

\* A scanf that refuses to run, since there is no input
handle_scanf_refused(self, statement) == Err(self, "Error: scanf is not supported")

\* CInterpreter::handle_scanf, handle_gets, handle_strcmp, handle_srand
handle_scanf(self, statement) == Ok(self, TRUE)
handle_gets(self, statement) == Ok(self, TRUE)
handle_strcmp(self, statement) == Ok(self, TRUE)
handle_srand(self, statement) == Ok(self, TRUE)

\* CInterpreter::handle_puts
handle_puts(self, statement) ==
    LET start == find(statement, "(")
        end == rfind(statement, ")")
    IN  IF start = -1 \/ end = -1 THEN Err(self, "Invalid puts syntax")
        ELSE IF end < start + 1 THEN Panic(self, "slice index starts after its end")
        ELSE Ok([self EXCEPT !.output =
                     @ \o trim_matches(Slice(statement, start + 1, end), "\"") \o "\n"],
                TRUE)

\* The name left of '=' in the library-call assignments: the last word of
\* the text before the first '='
assigned_name(statement) ==
    LET var_part == trim(split(statement, "=")[1])
    IN  IF contains(var_part, " ") THEN last_word(var_part) ELSE var_part

\* CInterpreter::handle_strlen
handle_strlen(self, statement) ==
    IF ~contains(statement, "=") THEN Ok(self, TRUE)
    ELSE LET strlen_part == trim(split(statement, "=")[2])
             start == find(strlen_part, "(")
             end == rfind(strlen_part, ")")
         IN  IF start = -1 \/ end = -1 THEN Err(self, "Invalid strlen syntax")
             ELSE IF end < start + 1 THEN Panic(self, "slice index starts after its end")
             ELSE LET arg == trim(Slice(strlen_part, start + 1, end))
                      length ==
                          IF starts_with(arg, "\"") THEN Len(trim_matches(arg, "\""))
                          ELSE IF has(self.variables, arg) /\ self.variables[arg].tag = "String"
                          THEN Len(self.variables[arg].s)
                          ELSE 0
                  IN  Ok(set_variable(self, assigned_name(statement), VInt(length)), TRUE)

\* CInterpreter::handle_strcpy
handle_strcpy(self, statement) ==
    LET start == find(statement, "(")
        end == rfind(statement, ")")
    IN  IF start = -1 \/ end = -1 THEN Err(self, "Invalid strcpy syntax")
        ELSE IF end < start + 1 THEN Panic(self, "slice index starts after its end")
        ELSE LET args == split_args(Slice(statement, start + 1, end))
             IN  IF Len(args) < 2 THEN Ok(self, TRUE)
                 ELSE LET dest == trim(args[1])
                          src == trim(args[2])
                          src_value ==
                              IF starts_with(src, "\"") THEN VString(trim_matches(src, "\""))
                              ELSE IF has(self.variables, src) THEN self.variables[src]
                              ELSE VString("")
                      IN  Ok(set_variable(self, dest, src_value), TRUE)

\* CInterpreter::handle_strcat
handle_strcat(self, statement) ==
    LET start == find(statement, "(")
        end == rfind(statement, ")")
    IN  IF start = -1 \/ end = -1 THEN Err(self, "Invalid strcat syntax")
        ELSE IF end < start + 1 THEN Panic(self, "slice index starts after its end")
        ELSE LET args == split_args(Slice(statement, start + 1, end))
             IN  IF Len(args) < 2 THEN Ok(self, TRUE)
                 ELSE LET dest == trim(args[1])
                          src == trim(args[2])
                          src_str ==
                              IF starts_with(src, "\"") THEN trim_matches(src, "\"")
                              ELSE IF has(self.variables, src) /\ self.variables[src].tag = "String"
                              THEN self.variables[src].s
                              ELSE ""
                      IN  IF has(self.variables, dest) /\ self.variables[dest].tag = "String"
                          THEN Ok(set_variable(self, dest,
                                               VString(self.variables[dest].s \o src_str)),
                                  TRUE)
                          ELSE Ok(self, TRUE)

\* The f64 results of handle_math_function.  The model computes the ones
\* that are integral; a result it does not compute is a Float marked with
\* the name of the function (no program of the model produces one).
Uncomputed(fn) == Value("Float", 0, fn, <<>>)
RECURSIVE IntPow(_, _)
IntPow(b, e) == IF e = 0 THEN 1 ELSE b * IntPow(b, e - 1)
math_value(fn, v) ==
    CASE fn = "sqrt" ->
            IF v >= 0 /\ \E q \in 0..v : q * q = v
            THEN VFloat(CHOOSE q \in 0..v : q * q = v) ELSE Uncomputed(fn)
      [] fn = "fabs" -> VFloat(Abs(v))
      [] fn = "abs" -> VInt(Abs(v))
      [] fn \in {"ceil", "floor"} -> VFloat(v)
      [] fn \in {"exp", "cos"} -> IF v = 0 THEN VFloat(1) ELSE Uncomputed(fn)
      [] fn = "log" -> IF v = 1 THEN VFloat(0) ELSE Uncomputed(fn)
      [] fn \in {"sin", "tan"} -> IF v = 0 THEN VFloat(0) ELSE Uncomputed(fn)

\* One function of handle_math_function: the argument between the first
\* '(' and the last ')' of the right-hand side, evaluated as a number
math_call(self, var_name, expr, fn, syntax) ==
    LET start == find(expr, "(")
        end == rfind(expr, ")")
    IN  IF start = -1 \/ end = -1 THEN Err(self, "Invalid " \o syntax \o " syntax")
        ELSE IF end < start + 1 THEN Panic(self, "slice index starts after its end")
        ELSE LET V == call("evaluate_numeric_expression", self, Slice(expr, start + 1, end))
             IN  IF V.r # "Ok" THEN V
                 ELSE Ok(set_variable(V.self, var_name, math_value(fn, V.val)), TRUE)

\* The pow branch of handle_math_function
math_pow(self, var_name, expr) ==
    LET start == find(expr, "(")
        end == rfind(expr, ")")
    IN  IF start = -1 \/ end = -1 THEN Err(self, "Invalid pow syntax")
        ELSE IF end < start + 1 THEN Panic(self, "slice index starts after its end")
        ELSE LET args == split_args(Slice(expr, start + 1, end))
             IN  IF Len(args) # 2 THEN Ok(self, TRUE)
                 ELSE LET B == call("evaluate_numeric_expression", self, trim(args[1]))
                      IN  IF B.r # "Ok" THEN B
                          ELSE LET E == call("evaluate_numeric_expression", B.self, trim(args[2]))
                               IN  IF E.r # "Ok" THEN E
                                   ELSE Ok(set_variable(
                                               E.self, var_name,
                                               IF E.val >= 0 THEN VFloat(IntPow(B.val, E.val))
                                               ELSE Uncomputed("pow")),
                                           TRUE)

\* CInterpreter::handle_math_function
handle_math_function(self, statement) ==
    IF ~contains(statement, "=") THEN Ok(self, TRUE)
    ELSE LET var_name == assigned_name(statement)
             expr == trim(split(statement, "=")[2])
         IN  IF contains(expr, "sqrt") THEN math_call(self, var_name, expr, "sqrt", "sqrt")
             ELSE IF contains(expr, "pow") THEN math_pow(self, var_name, expr)
             ELSE IF contains(expr, "abs") \/ contains(expr, "fabs")
             THEN math_call(self, var_name, expr,
                            IF contains(expr, "fabs") THEN "fabs" ELSE "abs", "abs")
             ELSE IF contains(expr, "ceil") THEN math_call(self, var_name, expr, "ceil", "ceil")
             ELSE IF contains(expr, "floor") THEN math_call(self, var_name, expr, "floor", "floor")
             ELSE IF contains(expr, "exp") THEN math_call(self, var_name, expr, "exp", "exp")
             ELSE IF contains(expr, "log") THEN math_call(self, var_name, expr, "log", "log")
             ELSE IF contains(expr, "sin") THEN math_call(self, var_name, expr, "sin", "sin")
             ELSE IF contains(expr, "cos") THEN math_call(self, var_name, expr, "cos", "cos")
             ELSE IF contains(expr, "tan") THEN math_call(self, var_name, expr, "tan", "tan")
             ELSE Ok(self, TRUE)

\* The hash of handle_rand: DefaultHasher over output.len(), modulo 32768.
\* SipHash is not computed here; a fixed function of the length with the
\* same range stands for it.
rand_of_length(n) == (n * 7919 + 12345) % 32768

\* CInterpreter::handle_rand
handle_rand(self, statement) ==
    IF ~contains(statement, "=") THEN Ok(self, TRUE)
    ELSE Ok(set_variable(self, assigned_name(statement),
                         VInt(rand_of_length(Len(self.output)))),
            TRUE)

(***************************************************************************)
(* Declarations and assignments.                                           *)
(***************************************************************************)
\* CInterpreter::evaluate_pointer_expression
evaluate_pointer_expression(self, expr0) ==
    LET expr == trim(expr0)
        numeric == LET V == call("evaluate_numeric_expression", self, expr)
                   IN  IF V.r # "Ok" THEN V ELSE Ok(V.self, VPointer(V.val))
        direct == IF has(self.variables, expr) /\ self.variables[expr].tag = "Pointer"
                  THEN Ok(self, VPointer(self.variables[expr].n))
                  ELSE numeric
    IN  IF expr = "NULL" \/ expr = "0" THEN Ok(self, VPointer(0))
        ELSE IF starts_with(expr, "&")
        THEN LET var_name == trim(SliceFrom(expr, 1))
             IN  IF contains(var_name, "[")
                 THEN LET bracket_pos == find(var_name, "[")
                          array_name == trim(Slice(var_name, 0, bracket_pos))
                          bracket_end == find(var_name, "]")
                      IN  IF bracket_end = -1 THEN Err(self, "Invalid array syntax")
                          ELSE IF bracket_end < bracket_pos + 1
                          THEN Panic(self, "slice index starts after its end")
                          ELSE LET I == call("evaluate_numeric_expression",
                                            self, Slice(var_name, bracket_pos + 1, bracket_end))
                               IN  IF I.r # "Ok" THEN I
                                   ELSE IF has(I.self.address_map, array_name)
                                   THEN Ok(I.self, VPointer(I.self.address_map[array_name]
                                                            + I.val * 8))
                                   ELSE Err(I.self, "Variable '" \o array_name \o "' not found")
                 ELSE IF has(self.variables, var_name)
                 THEN LET A == get_address_of(self, var_name, self.variables[var_name])
                      IN  Ok(A.self, VPointer(A.addr))
                 ELSE Err(self, "Variable '" \o var_name \o "' not found")
        ELSE IF starts_with(expr, "*")
        THEN LET ptr_expr == trim(SliceFrom(expr, 1))
             IN  IF has(self.variables, ptr_expr) /\ self.variables[ptr_expr].tag = "Pointer"
                 THEN LET V == read(self, self.variables[ptr_expr].n)
                      IN  IF V.r # "Ok" THEN V
                          ELSE Ok(V.self, VPointer(self.variables[ptr_expr].n))
                 ELSE direct
        ELSE direct

\* The type keywords of handle_declaration and is_declaration, in order
type_keywords == <<"int", "float", "double", "char", "long", "short">>
\* CInterpreter::is_declaration
is_declaration(statement) ==
    \E k \in 1..Len(type_keywords) : starts_with(statement, type_keywords[k] \o " ")

\* The default value of a type (lib.rs 1128-1132, 1186-1190)
default_value(var_type) ==
    CASE var_type \in {"float", "double"} -> VFloat(0)
      [] var_type = "char" -> VChar(NUL)
      [] OTHER -> VInt(0)

\* The initial value of a non-pointer declaration (lib.rs 1152-1170)
initial_value(self, var_type, expr) ==
    IF var_type = "char" /\ starts_with(expr, "'")
    THEN Ok(self, VChar(first_char_or_nul(trim_matches(expr, "'"))))
    ELSE LET V == call("evaluate_numeric_expression", self, expr)
         IN  IF V.r # "Ok" THEN V
             ELSE Ok(V.self,
                     CASE var_type \in {"float", "double"} -> VFloat(V.val)
                       [] var_type = "char" -> Value("Char", V.val % 256, "", <<>>)
                       [] OTHER -> VInt(V.val))

\* The end of handle_declaration: a non-pointer is mirrored in memory,
\* then the variable is stored
declare(self, var_name, value, is_pointer) ==
    IF is_pointer THEN set_variable(self, var_name, value)
    ELSE LET A == get_address_of(self, var_name, value)
         IN  set_variable(update_variable_address(A.self, var_name, value),
                          var_name, value)

\* The array declaration of handle_declaration (lib.rs 1117-1142)
declare_array(self, var_type, rest) ==
    LET bracket_pos == find(rest, "[")
        var_name == trim(Slice(rest, 0, bracket_pos))
        bracket_end == find(rest, "]")
    IN  IF bracket_end = -1 THEN Err(self, "Invalid array syntax")
        ELSE IF bracket_end < bracket_pos + 1
        THEN Panic(self, "slice index starts after its end")
        ELSE LET size_str == Slice(rest, bracket_pos + 1, bracket_end)
                 S == IF size_str = "" THEN Ok(self, 0)
                      ELSE call("evaluate_numeric_expression", self, size_str)
             IN  IF S.r # "Ok" THEN S
                 ELSE IF S.val < 0 THEN Panic(S.self, "capacity overflow")
                 ELSE LET array_value == VArray([i \in 1..S.val |-> default_value(var_type)])
                          A == allocate(S.self, array_value)
                      IN  Ok(set_variable(
                                 [A.self EXCEPT !.address_map = insert(@, var_name, A.addr)],
                                 var_name, array_value),
                             TRUE)

\* CInterpreter::handle_declaration
handle_declaration(self, statement0) ==
    LET statement == trim(statement0)
        K == {k \in 1..Len(type_keywords) : starts_with(statement, type_keywords[k] \o " ")}
    IN  IF K = {} THEN Err(self, "Unknown type")
        ELSE LET var_type == type_keywords[Min(K)]
                 rest0 == trim(SliceFrom(statement, Len(var_type) + 1))
                 is_pointer == starts_with(rest0, "*")
                 rest == IF is_pointer THEN trim(trim_start_matches(rest0, "*")) ELSE rest0
                 eq_pos == find(rest, "=")
             IN  IF contains(rest, "[") /\ ~is_pointer THEN declare_array(self, var_type, rest)
                 ELSE IF eq_pos # -1
                 THEN LET var_name == trim(Slice(rest, 0, eq_pos))
                          expr == trim(SliceFrom(rest, eq_pos + 1))
                          V == IF is_pointer THEN call("evaluate_pointer_expression", self, expr)
                               ELSE initial_value(self, var_type, expr)
                      IN  IF V.r # "Ok" THEN V
                          ELSE Ok(declare(V.self, var_name, V.val, is_pointer), TRUE)
                 ELSE Ok(declare(self, trim(rest),
                                 IF is_pointer THEN VPointer(0) ELSE default_value(var_type),
                                 is_pointer),
                         TRUE)

compound_ops == <<"+=", "-=", "*=", "/=", "%=">>

\* CInterpreter::handle_compound_assignment
handle_compound_assignment(self, statement) ==
    LET K == {k \in 1..Len(compound_ops) : contains(statement, compound_ops[k])}
    IN  IF K = {} THEN Ok(self, TRUE)
        ELSE LET op == compound_ops[Min(K)]
                 parts == splitn2(statement, op)
                 var_name == trim(parts[1])
                 C == call("evaluate_numeric_expression", self, var_name)
             IN  IF C.r # "Ok" THEN C
                 ELSE LET E == call("evaluate_numeric_expression", C.self, trim(parts[2]))
                      IN  IF E.r # "Ok" THEN E
                          ELSE IF op = "/=" /\ E.val = 0 THEN Err(E.self, "Division by zero")
                          ELSE IF op = "%=" /\ E.val = 0
                          THEN Panic(E.self,
                                     "attempt to calculate the remainder with a divisor of zero")
                          ELSE Ok(set_variable(
                                      E.self, var_name,
                                      VInt(CASE op = "+=" -> C.val + E.val
                                             [] op = "-=" -> C.val - E.val
                                             [] op = "*=" -> C.val * E.val
                                             [] op = "/=" -> TruncDiv(C.val, E.val)
                                             [] op = "%=" -> TruncRem(C.val, E.val))),
                                  TRUE)

\* The value of a string, char or numeric right-hand side (lib.rs
\* 1354-1361, 1428-1437 without the address case)
literal_or_number(self, expr) ==
    IF starts_with(expr, "\"") THEN Ok(self, VString(trim_matches(expr, "\"")))
    ELSE IF starts_with(expr, "'")
    THEN Ok(self, VChar(first_char_or_nul(trim_matches(expr, "'"))))
    ELSE LET V == call("evaluate_numeric_expression", self, expr)
         IN  IF V.r # "Ok" THEN V ELSE Ok(V.self, VInt(V.val))

\* A pointer write that leaves the variables alone
refresh_nothing(self, addr, value) == self

\* The loop of the pointer write over address_map (lib.rs 1333-1338): the
\* variable at the written address takes the value.  Addresses are handed
\* out once each, so at most one name matches.
refresh_variable_at(self, addr, value) ==
    LET names == {v \in DOMAIN self.address_map : self.address_map[v] = addr}
    IN  IF names = {} THEN self
        ELSE set_variable(self, CHOOSE v \in names : TRUE, value)

\* The write through a pointer of handle_assignment (lib.rs 1309-1344)
assign_through_pointer(self, left, expr) ==
    LET ptr_name == trim(SliceFrom(left, 1))
    IN  IF ~(has(self.variables, ptr_name) /\ self.variables[ptr_name].tag = "Pointer")
        THEN Err(self, "'" \o ptr_name \o "' is not a valid pointer")
        ELSE LET addr == self.variables[ptr_name].n
                 V == IF starts_with(expr, "\"") \/ starts_with(expr, "'")
                      THEN literal_or_number(self, expr)
                      ELSE IF starts_with(expr, "&") THEN call("evaluate_pointer_expression", self, expr)
                      ELSE IF has(self.variables, expr) THEN Ok(self, self.variables[expr])
                      ELSE literal_or_number(self, expr)
             IN  IF V.r # "Ok" THEN V
                 ELSE LET W == write(V.self, addr, V.val)
                      IN  IF W.r # "Ok" THEN W
                          ELSE Ok(refresh_variable_at(W.self, addr, V.val), TRUE)

\* The array element assignment of handle_assignment (lib.rs 1347-1377)
assign_element(self, left, expr) ==
    LET bracket_pos == find(left, "[")
        var_name == trim(Slice(left, 0, bracket_pos))
        bracket_end == find(left, "]")
    IN  IF bracket_end = -1 THEN Err(self, "Invalid array syntax")
        ELSE IF bracket_end < bracket_pos + 1
        THEN Panic(self, "slice index starts after its end")
        ELSE LET I == call("evaluate_numeric_expression",
                          self, Slice(left, bracket_pos + 1, bracket_end))
             IN  IF I.r # "Ok" THEN I
                 ELSE LET V == literal_or_number(I.self, expr)
                      IN  IF V.r # "Ok" THEN V
                          ELSE IF /\ has(V.self.variables, var_name)
                                  /\ V.self.variables[var_name].tag = "Array"
                                  /\ I.val >= 0
                                  /\ I.val < Len(V.self.variables[var_name].a)
                          THEN LET arr == V.self.variables[var_name].a
                                   stored == set_variable(
                                       V.self, var_name,
                                       VArray([arr EXCEPT ![I.val + 1] = V.val]))
                                   element_addr ==
                                       stored.address_map[var_name] + I.val * 8
                               IN  IF /\ has(stored.address_map, var_name)
                                      /\ has(stored.heap, element_addr)
                                   THEN LET W == write(stored, element_addr, V.val)
                                        IN  IF W.r # "Ok" THEN W ELSE Ok(W.self, TRUE)
                                   ELSE Ok(stored, TRUE)
                          ELSE Ok(V.self, TRUE)

\* The value assigned to an existing variable, by its type (lib.rs
\* 1390-1418)
coerced_value(self, existing_value, expr) ==
    CASE existing_value.tag = "Float" ->
            LET V == call("evaluate_numeric_expression", self, expr)
            IN  IF V.r # "Ok" THEN V ELSE Ok(V.self, VFloat(V.val))
      [] existing_value.tag = "Char" ->
            IF starts_with(expr, "'")
            THEN Ok(self, VChar(first_char_or_nul(trim_matches(expr, "'"))))
            ELSE LET V == call("evaluate_numeric_expression", self, expr)
                 IN  IF V.r # "Ok" THEN V
                     ELSE Ok(V.self, Value("Char", V.val % 256, "", <<>>))
      [] existing_value.tag = "String" ->
            IF starts_with(expr, "\"") THEN Ok(self, VString(trim_matches(expr, "\"")))
            ELSE Ok(self, existing_value)
      [] existing_value.tag = "Pointer" -> call("evaluate_pointer_expression", self, expr)
      [] OTHER ->
            LET V == call("evaluate_numeric_expression", self, expr)
            IN  IF V.r # "Ok" THEN V ELSE Ok(V.self, VInt(V.val))

\* CInterpreter::handle_assignment
handle_assignment(self, statement) ==
    LET parts == splitn2(statement, "=")
    IN  IF Len(parts) # 2 THEN Err(self, "Error: Invalid assignment syntax")
        ELSE LET left == trim(parts[1])
                 expr == trim(parts[2])
             IN  IF starts_with(left, "*") THEN assign_through_pointer(self, left, expr)
                 ELSE IF contains(left, "[") THEN assign_element(self, left, expr)
                 ELSE IF \/ starts_with(expr, "&")
                         \/ (has(self.variables, left) /\ self.variables[left].tag = "Pointer")
                 THEN LET V == call("evaluate_pointer_expression", self, expr)
                      IN  IF V.r # "Ok" THEN V ELSE Ok(set_variable(V.self, left, V.val), TRUE)
                 ELSE IF has(self.variables, left)
                 THEN LET V == coerced_value(self, self.variables[left], expr)
                      IN  IF V.r # "Ok" THEN V
                          ELSE LET stored == set_variable(V.self, left, V.val)
                               IN  IF has(stored.address_map, left)
                                   THEN LET W == write(stored, stored.address_map[left], V.val)
                                        IN  IF W.r # "Ok" THEN W ELSE Ok(W.self, TRUE)
                                   ELSE Ok(stored, TRUE)
                 ELSE LET V == IF starts_with(expr, "&")
                               THEN call("evaluate_pointer_expression", self, expr)
                               ELSE literal_or_number(self, expr)
                      IN  IF V.r # "Ok" THEN V
                          ELSE Ok(declare(V.self, left, V.val, FALSE), TRUE)

\* CInterpreter::handle_increment_decrement
handle_increment_decrement(self, statement) ==
    LET op == IF contains(statement, "++") THEN "++" ELSE "--"
        var_name == trim(replace(statement, op, ""))
        delta == IF op = "++" THEN 1 ELSE -1
    IN  IF ~contains(statement, "++") /\ ~contains(statement, "--") THEN Ok(self, TRUE)
        ELSE IF has(self.variables, var_name)
                /\ self.variables[var_name].tag \in {"Int", "Float"}
        THEN Ok(set_variable(self, var_name,
                             [self.variables[var_name] EXCEPT !.n = @ + delta]),
                TRUE)
        ELSE Ok(self, TRUE)

\* The functions of the math branch of execute_statement (lib.rs 351-356)
math_names == {"sqrt", "pow", "abs", "sin", "cos", "tan", "ceil", "floor",
               "exp", "log", "fabs"}

\* CInterpreter::execute_statement
execute_statement(self0, statement0) ==
    LET statement == trim_end_matches(trim(statement0), ";")
        self == [self0 EXCEPT !.trace = Append(@, statement)]
    IN  IF statement = "" THEN Ok(self0, TRUE)
        ELSE IF statement = "break" THEN Ok([self EXCEPT !.loop_break = TRUE], TRUE)
        ELSE IF statement = "continue" THEN Ok([self EXCEPT !.loop_continue = TRUE], TRUE)
        ELSE IF contains(statement, "printf") THEN handle_printf(self, statement)
        ELSE IF contains(statement, "scanf") THEN handle_scanf(self, statement)
        ELSE IF contains(statement, "puts") THEN handle_puts(self, statement)
        ELSE IF contains(statement, "gets") THEN handle_gets(self, statement)
        ELSE IF contains(statement, "strlen") THEN handle_strlen(self, statement)
        ELSE IF contains(statement, "strcpy") THEN handle_strcpy(self, statement)
        ELSE IF contains(statement, "strcmp") THEN handle_strcmp(self, statement)
        ELSE IF contains(statement, "strcat") THEN handle_strcat(self, statement)
        ELSE IF \E f \in math_names : contains(statement, f)
        THEN handle_math_function(self, statement)
        ELSE IF contains(statement, "rand") THEN handle_rand(self, statement)
        ELSE IF contains(statement, "srand") THEN handle_srand(self, statement)
        ELSE IF is_declaration(statement) THEN handle_declaration(self, statement)
        ELSE IF \E k \in 1..Len(compound_ops) : contains(statement, compound_ops[k])
        THEN handle_compound_assignment(self, statement)
        ELSE IF /\ contains(statement, "=")
                /\ ~is_declaration(statement)
                /\ ~contains(statement, "==")
                /\ ~contains(statement, "!=")
                /\ ~contains(statement, "<=")
                /\ ~contains(statement, ">=")
        THEN handle_assignment(self, statement)
        ELSE IF contains(statement, "++") \/ contains(statement, "--")
        THEN handle_increment_decrement(self, statement)
        ELSE Ok(self, TRUE)

(***************************************************************************)
(* Control flow.  A call of execute_statements and each loop in progress   *)
(* is a frame of the control stack; the top frame is the last one.  A      *)
(* frame holds its function (k), its position in it (at) and its locals.   *)
(***************************************************************************)
Frame(k, at, body, statements, i, condition, increment, iterations) ==
    [k |-> k, at |-> at, body |-> body, statements |-> statements, i |-> i,
     condition |-> condition, increment |-> increment, iterations |-> iterations]
\* self.execute_statements(body), not yet begun
Call(body) == Frame("execute_statements", "entry", body, <<>>, 0, "", "", 0)
\* the loop over statements of execute_statements (lib.rs 251-256)
Statements(statements) ==
    Frame("execute_statements", "statements", "", statements, 1, "", "", 0)
\* a loop of handle_for_loop, handle_while_loop or handle_do_while_loop
Loop(k, condition, increment, loop_body) ==
    Frame(k, "iteration", loop_body, <<>>, 0, condition, increment, 0)

\* The outcome of a step of the top frame: the frames that take its place
Go(self, frames) ==
    [r |-> "Ok", self |-> self, val |-> TRUE, msg |-> "", frames |-> frames]
Stop(R) == [r |-> R.r, self |-> R.self, val |-> 0, msg |-> R.msg, frames |-> <<>>]
Fail(self, msg) == Stop(Err(self, msg))

\* The scan of find_matching_brace and find_matching_paren: the first
\* closer at or after start at which the depth returns to zero
find_matching(text, start, opener, closer) ==
    LET depth(i) == Cardinality({j \in start..i : Ch(text, j) = opener})
                    - Cardinality({j \in start..i : Ch(text, j) = closer})
        found == {i \in start..(Len(text) - 1) : Ch(text, i) = closer /\ depth(i) = 0}
    IN  IF found = {} THEN -1 ELSE Min(found)
\* The last closing brace of the text, whatever it closes
find_last_brace(text, start) == rfind(text, "}")

\* CInterpreter::find_matching_brace
find_matching_brace(text, start) == find_matching(text, start, "{", "}")
\* CInterpreter::find_matching_paren
find_matching_paren(text, start) == find_matching(text, start, "(", ")")

\* CInterpreter::split_statements.  The loop over chars keeps in_string
\* (toggled by a quote that no backslash precedes) and, outside strings,
\* brace_depth and paren_depth; they are counted here from the characters
\* before an offset.  A semicolon outside strings, braces and parentheses
\* ends a statement; statements that trim to nothing are dropped.
split_statements(body) ==
    LET quotes == {j \in 0..(Len(body) - 1) :
                      Ch(body, j) = "\"" /\ (j = 0 \/ Ch(body, j - 1) # "\\")}
        in_string(i) == Cardinality({j \in quotes : j < i}) % 2 = 1
        outside(c) == {j \in 0..(Len(body) - 1) : Ch(body, j) = c /\ ~in_string(j)}
        opened == outside("{")
        closed == outside("}")
        left == outside("(")
        right == outside(")")
        before(S, i) == Cardinality({j \in S : j < i})
        cuts == {i \in outside(";") :
                    /\ before(opened, i) = before(closed, i)
                    /\ before(left, i) = before(right, i)}
        statements == Pieces(body, cuts, TRUE)
    IN  SelectSeq([k \in 1..Len(statements) |-> trim(statements[k])],
                  LAMBDA stmt : stmt # "")

\* let max_iterations = 100000
max_iterations == 100000
LoopExceeded == "Loop exceeded maximum iterations (possible infinite loop)"

\* The header "keyword ( ... ) { ... }" that the handlers of for, while,
\* if and switch locate in the same way: the offsets of the parentheses
\* and braces, or the error of the first one that is missing
header(body, keyword, syntax_error, body_error) ==
    LET keyword_start == find(body, keyword)
        paren_start == find_from(body, "(", keyword_start)
        paren_end == find_matching_paren(body, paren_start)
        body_start == find_from(body, "{", paren_end)
        body_end == find_matching_brace(body, body_start)
    IN  IF paren_start = -1 \/ paren_end = -1
        THEN [error |-> syntax_error]
        ELSE IF body_start = -1 THEN [error |-> body_error]
        ELSE IF body_end = -1 THEN [error |-> "Unmatched braces"]
        ELSE [error |-> "", paren_start |-> paren_start, paren_end |-> paren_end,
              body_start |-> body_start, body_end |-> body_end,
              inside |-> Slice(body, paren_start + 1, paren_end),
              block |-> Slice(body, body_start + 1, body_end)]

\* CInterpreter::handle_for_loop up to the loop (lib.rs 410-434)
handle_for_loop(self, body) ==
    LET for_start == find(body, "for")
        paren_start == find_from(body, "(", for_start)
        paren_end == find_matching_paren(body, paren_start)
        parts == split(Slice(body, paren_start + 1, paren_end), ";")
    IN  IF paren_start = -1 \/ paren_end = -1 THEN Fail(self, "Invalid for loop syntax")
        ELSE IF Len(parts) # 3 THEN Fail(self, "Invalid for loop syntax")
        ELSE LET I == call("execute_statement", self, trim(parts[1]))
                 body_start == find_from(body, "{", paren_end)
                 body_end == find_matching_brace(body, body_start)
             IN  IF I.r # "Ok" THEN Stop(I)
                 ELSE IF body_start = -1 THEN Fail(I.self, "Invalid for loop body")
                 ELSE IF body_end = -1 THEN Fail(I.self, "Unmatched braces")
                 ELSE Go(I.self, <<Loop("handle_for_loop", trim(parts[2]), trim(parts[3]),
                                        Slice(body, body_start + 1, body_end))>>)

\* CInterpreter::handle_while_loop up to the loop (lib.rs 464-476)
handle_while_loop(self, body) ==
    LET h == header(body, "while", "Invalid while loop syntax", "Invalid while loop body")
    IN  IF h.error # "" THEN Fail(self, h.error)
        ELSE Go(self, <<Loop("handle_while_loop", h.inside, "", h.block)>>)

\* CInterpreter::handle_do_while_loop up to the loop (lib.rs 502-513)
handle_do_while_loop(self, body) ==
    LET do_start == find(body, "do")
        body_start == find_from(body, "{", do_start)
        body_end == find_matching_brace(body, body_start)
        while_start == find_from(body, "while", body_end)
        paren_start == find_from(body, "(", while_start)
        paren_end == find_matching_paren(body, paren_start)
    IN  IF body_start = -1 THEN Fail(self, "Invalid do-while body")
        ELSE IF body_end = -1 THEN Fail(self, "Unmatched braces")
        ELSE IF while_start = -1 THEN Fail(self, "Invalid do-while loop")
        ELSE IF paren_start = -1 \/ paren_end = -1
        THEN Fail(self, "Invalid do-while syntax")
        ELSE Go(self, <<Loop("handle_do_while_loop",
                             Slice(body, paren_start + 1, paren_end), "",
                             Slice(body, body_start + 1, body_end))>>)

\* An if that takes its else part for a plain else, whether or not it
\* begins with another if
handle_if_plain_else(self, body) ==
    LET h == header(body, "if", "Invalid if syntax", "Invalid if body")
    IN  IF h.error # "" THEN Fail(self, h.error)
        ELSE LET remaining == trim(SliceFrom(body, h.body_end + 1))
                 C == call("evaluate_condition", self, h.inside)
             IN  IF C.r # "Ok" THEN Stop(C)
                 ELSE IF C.val THEN Go(C.self, <<Call(h.block)>>)
                 ELSE IF starts_with(remaining, "else")
                 THEN LET else_part == trim(SliceFrom(remaining, 4))
                          else_body_start == find(else_part, "{")
                          else_body_end == find_matching_brace(else_part, else_body_start)
                      IN  IF else_body_start = -1
                          THEN Fail(C.self, "Invalid else body")
                          ELSE IF else_body_end = -1 THEN Fail(C.self, "Unmatched braces")
                          ELSE Go(C.self, <<Call(Slice(else_part, else_body_start + 1,
                                                       else_body_end))>>)
                 ELSE Go(C.self, <<>>)

\* CInterpreter::handle_if_else_statement
RECURSIVE handle_if_else_statement(_, _)
handle_if_else_statement(self, body) ==
    LET h == header(body, "if", "Invalid if syntax", "Invalid if body")
    IN  IF h.error # "" THEN Fail(self, h.error)
        ELSE LET remaining == trim(SliceFrom(body, h.body_end + 1))
                 C == call("evaluate_condition", self, h.inside)
             IN  IF C.r # "Ok" THEN Stop(C)
                 ELSE IF C.val THEN Go(C.self, <<Call(h.block)>>)
                 ELSE IF starts_with(remaining, "else")
                 THEN LET else_part == trim(SliceFrom(remaining, 4))
                          else_body_start == find(else_part, "{")
                          else_body_end == find_matching_brace(else_part, else_body_start)
                      IN  IF starts_with(else_part, "if")
                          THEN handle_if_else_statement(C.self, else_part)
                          ELSE IF else_body_start = -1
                          THEN Fail(C.self, "Invalid else body")
                          ELSE IF else_body_end = -1 THEN Fail(C.self, "Unmatched braces")
                          ELSE Go(C.self, <<Call(Slice(else_part, else_body_start + 1,
                                                       else_body_end))>>)
                 ELSE Go(C.self, <<>>)

\* The loop of handle_switch_statement over the lines of the switch body
\* (lib.rs 595-619)
RECURSIVE switch_lines(_, _, _, _, _)
switch_lines(self, body_lines, i, switch_value, execute_remaining) ==
    IF i > Len(body_lines) THEN Go(self, <<>>)
    ELSE LET line == trim(body_lines[i])
             case_value == parse_i64(trim_end_matches(trim(SliceFrom(line, 4)), ":"))
         IN  IF starts_with(line, "case")
             THEN switch_lines(self, body_lines, i + 1, switch_value,
                               \/ execute_remaining
                               \/ (case_value.some /\ case_value.v = switch_value))
             ELSE IF starts_with(line, "default:")
             THEN switch_lines(self, body_lines, i + 1, switch_value, TRUE)
             ELSE IF line = "break;" /\ execute_remaining THEN Go(self, <<>>)
             ELSE IF execute_remaining /\ line # ""
             THEN LET E == call("execute_statement", self, line)
                  IN  IF E.r # "Ok" THEN Stop(E)
                      ELSE switch_lines(E.self, body_lines, i + 1, switch_value,
                                        execute_remaining)
             ELSE switch_lines(self, body_lines, i + 1, switch_value, execute_remaining)

\* A switch that executes its body from the first line on
handle_switch_from_top(self, body) ==
    LET switch_start == find(body, "switch")
        paren_start == find_from(body, "(", switch_start)
        paren_end == find_matching_paren(body, paren_start)
    IN  IF paren_start = -1 \/ paren_end = -1 THEN Fail(self, "Invalid switch syntax")
        ELSE LET V == call("evaluate_numeric_expression", self, Slice(body, paren_start + 1, paren_end))
                 body_start == find_from(body, "{", paren_end)
                 body_end == find_matching_brace(body, body_start)
             IN  IF V.r # "Ok" THEN Stop(V)
                 ELSE IF body_start = -1 THEN Fail(V.self, "Invalid switch body")
                 ELSE IF body_end = -1 THEN Fail(V.self, "Unmatched braces")
                 ELSE switch_lines(V.self, lines(Slice(body, body_start + 1, body_end)),
                                   1, V.val, TRUE)

\* CInterpreter::handle_switch_statement
handle_switch_statement(self, body) ==
    LET switch_start == find(body, "switch")
        paren_start == find_from(body, "(", switch_start)
        paren_end == find_matching_paren(body, paren_start)
    IN  IF paren_start = -1 \/ paren_end = -1 THEN Fail(self, "Invalid switch syntax")
        ELSE LET V == call("evaluate_numeric_expression", self, Slice(body, paren_start + 1, paren_end))
                 body_start == find_from(body, "{", paren_end)
                 body_end == find_matching_brace(body, body_start)
             IN  IF V.r # "Ok" THEN Stop(V)
                 ELSE IF body_start = -1 THEN Fail(V.self, "Invalid switch body")
                 ELSE IF body_end = -1 THEN Fail(V.self, "Unmatched braces")
                 ELSE switch_lines(V.self, lines(Slice(body, body_start + 1, body_end)),
                                   1, V.val, FALSE)

\* CInterpreter::execute_statements up to its loop over statements
execute_statements(self, body0) ==
    LET body == trim(body0)
    IN  IF body = "" THEN Go(self, <<>>)
        ELSE IF contains(body, "for") THEN handle_for_loop(self, body)
        ELSE IF contains(body, "while") THEN handle_while_loop(self, body)
        ELSE IF contains(body, "do") /\ contains(body, "while")
        THEN handle_do_while_loop(self, body)
        ELSE IF contains(body, "if") THEN handle_if_else_statement(self, body)
        ELSE IF contains(body, "switch") THEN handle_switch_statement(self, body)
        ELSE Go(self, <<Statements(split_statements(body))>>)

\* A loop that does not count its iterations
loop_iteration_uncounted(self, frame) ==
    LET C == IF frame.k = "handle_do_while_loop" THEN Ok(self, TRUE)
             ELSE call("evaluate_condition", self, frame.condition)
    IN  IF C.r # "Ok" THEN Stop(C)
        ELSE IF ~C.val THEN Go(C.self, <<>>)
        ELSE Go([C.self EXCEPT !.loop_break = FALSE, !.loop_continue = FALSE],
                <<[frame EXCEPT !.at = "after_body"], Call(frame.body)>>)

\* One entry into an iteration of a loop.  For and while test the
\* condition first (lib.rs 436-445, 479-488); do-while does not (lib.rs
\* 515-524).  The frame stays below the call of the loop body.
loop_iteration(self, frame) ==
    LET C == IF frame.k = "handle_do_while_loop" THEN Ok(self, TRUE)
             ELSE call("evaluate_condition", self, frame.condition)
    IN  IF C.r # "Ok" THEN Stop(C)
        ELSE IF ~C.val THEN Go(C.self, <<>>)
        ELSE IF frame.iterations >= max_iterations THEN Fail(C.self, LoopExceeded)
        ELSE Go([C.self EXCEPT !.loop_break = FALSE, !.loop_continue = FALSE],
                <<[frame EXCEPT !.iterations = @ + 1, !.at = "after_body"],
                  Call(frame.body)>>)

\* A loop that leaves loop_break set when it is left by break
loop_after_body_leaking(self, frame) ==
    LET again == [frame EXCEPT !.at = "iteration"]
    IN  IF self.loop_break THEN Go(self, <<>>)
        ELSE IF frame.k = "handle_for_loop"
        THEN LET E == call("execute_statement", self, frame.increment)
             IN  IF E.r # "Ok" THEN Stop(E)
                 ELSE Go([E.self EXCEPT !.loop_continue = FALSE], <<again>>)
        ELSE Go([self EXCEPT !.loop_continue = FALSE], <<again>>)

\* A loop whose for step is skipped by continue
loop_after_body_skipping(self, frame) ==
    LET again == [frame EXCEPT !.at = "iteration"]
    IN  IF self.loop_break THEN Go([self EXCEPT !.loop_break = FALSE], <<>>)
        ELSE IF frame.k = "handle_for_loop" /\ ~self.loop_continue
        THEN LET E == call("execute_statement", self, frame.increment)
             IN  IF E.r # "Ok" THEN Stop(E)
                 ELSE Go(E.self, <<again>>)
        ELSE Go([self EXCEPT !.loop_continue = FALSE], <<again>>)

\* The rest of an iteration, once the loop body has returned (lib.rs
\* 447-457, 490-495, 526-535)
loop_after_body(self, frame) ==
    LET again == [frame EXCEPT !.at = "iteration"]
    IN  IF self.loop_break THEN Go([self EXCEPT !.loop_break = FALSE], <<>>)
        ELSE IF frame.k = "handle_for_loop"
        THEN LET E == call("execute_statement", self, frame.increment)
             IN  IF E.r # "Ok" THEN Stop(E)
                 ELSE Go([E.self EXCEPT !.loop_continue = FALSE], <<again>>)
        ELSE IF frame.k = "handle_while_loop"
        THEN Go([self EXCEPT !.loop_continue = FALSE], <<again>>)
        ELSE LET C == call("evaluate_condition", [self EXCEPT !.loop_continue = FALSE],
                                         frame.condition)
             IN  IF C.r # "Ok" THEN Stop(C)
                 ELSE IF ~C.val THEN Go(C.self, <<>>)
                 ELSE Go(C.self, <<again>>)

\* One turn of the loop over statements of execute_statements (lib.rs
\* 251-256)
next_statement(self, frame) ==
    IF frame.i > Len(frame.statements) \/ self.loop_break \/ self.loop_continue
    THEN Go(self, <<>>)
    ELSE LET E == call("execute_statement", self, frame.statements[frame.i])
         IN  IF E.r # "Ok" THEN Stop(E)
             ELSE Go(E.self, <<[frame EXCEPT !.i = @ + 1]>>)

call(method, self, arg) ==
    CASE method = "evaluate_numeric_expression" -> evaluate_numeric_expression(self, arg)
      [] method = "evaluate_condition" -> evaluate_condition(self, arg)
      [] method = "evaluate_value_expression" -> evaluate_value_expression(self, arg)
      [] method = "evaluate_pointer_expression" -> evaluate_pointer_expression(self, arg)
      [] method = "execute_statement" -> execute_statement(self, arg)
      [] method = "execute_statements" -> execute_statements(self, arg)
      [] method = "next_statement" -> next_statement(self, arg)
      [] method = "loop_iteration" -> loop_iteration(self, arg)
      [] method = "loop_after_body" -> loop_after_body(self, arg)

\* CInterpreter::execute up to the call of execute_statements
execute(self, source) ==
    LET main_start == IF find(source, "int main") # -1 THEN find(source, "int main")
                      ELSE find(source, "void main")
        text == SliceFrom(source, main_start)
        body_start == find(text, "{")
        body_end == find_matching_brace(text, body_start)
    IN  IF main_start = -1 THEN Fail(self, "Error: No main function found")
        ELSE IF body_start = -1 THEN Fail(self, "Error: Invalid main function syntax")
        ELSE IF body_end = -1 THEN Fail(self, "Error: Unmatched braces in main function")
        ELSE Go(self, <<Call(Slice(text, body_start + 1, body_end))>>)

\* Option<String>::None
NoneString == [some |-> FALSE, v |-> ""]

\* A result that keeps the output of a failed run
compile_and_run_c_partial(finished, self, message) ==
    [success |-> finished, output |-> self.output,
     error |-> IF finished THEN NoneString ELSE Some(message)]

\* The match of compile_and_run_c on the result of execute (lib.rs 29-42)
compile_and_run_c(finished, self, message) ==
    IF finished
    THEN [success |-> TRUE, output |-> self.output, error |-> NoneString]
    ELSE [success |-> FALSE, output |-> "", error |-> Some(message)]

(***************************************************************************)
(* The state machine: one run of compile_and_run_c on a program.           *)
(***************************************************************************)
\* CInterpreter::new
new == [variables |-> EmptyMap, heap |-> EmptyMap, next_address |-> 4096,
        address_map |-> EmptyMap, output |-> "", loop_break |-> FALSE,
        loop_continue |-> FALSE, trace |-> <<>>, last_access |-> NoAccess]

\* The interpreter of the current state
Self == [variables |-> variables, heap |-> heap, next_address |-> next_address,
         address_map |-> address_map, output |-> output, loop_break |-> loop_break,
         loop_continue |-> loop_continue, trace |-> trace,
         last_access |-> last_access]

\* A call that runs on the interpreter of the call before it
compile_c_code_reusing(c_code) == execute(Self, c_code)

\* compile_c_code: the call runs on an interpreter of its own
compile_c_code(c_code) == execute(new, c_code)

Install(self) ==
    /\ variables' = self.variables
    /\ heap' = self.heap
    /\ next_address' = self.next_address
    /\ address_map' = self.address_map
    /\ output' = self.output
    /\ loop_break' = self.loop_break
    /\ loop_continue' = self.loop_continue
    /\ trace' = self.trace
    /\ last_access' = self.last_access

Top == stack[Len(stack)]

\* The step R replaces the top frame; an Err unwinds every frame through
\* the ? operators up to compile_and_run_c, a panic ends the run
Take(R, below) ==
    /\ Install(R.self)
    /\ stack' = IF R.r = "Ok" THEN below \o R.frames ELSE <<>>
    /\ status' = CASE R.r = "Ok" -> "running"
                   [] R.r = "Err" -> "failed"
                   [] R.r = "Panic" -> "panic"
    /\ error' = IF R.r = "Ok" THEN error ELSE R.msg
    /\ UNCHANGED <<code, result, calls>>

Below == SubSeq(stack, 1, Len(stack) - 1)

(***************************************************************************)
(* The programs that are run: the c_code of compile_and_run_c.             *)
(***************************************************************************)
\* tests::test_simple_hello_world
HelloWorld ==
    "int main() { printf(\"Hello, World!\\n\"); return 0; }"
\* tests::test_for_loop_with_break
ForLoopWithBreak ==
    "int main() { for(int i = 0; i < 10; i++) { if(i == 5) { break; } printf(\"%d \", i); } return 0; }"
\* tests::test_else_statement
ElseStatement ==
    "int main() { int x = 5; if(x > 10) { printf(\"Greater\\n\"); } else { printf(\"Smaller\\n\"); } return 0; }"
\* a while loop after a declaration
WhileCount ==
    "int main(){ int i=0; while(i<3){ printf(\"%d\", i); i++; } return 0; }"
\* a while loop left by break
WhileBreak ==
    "int main(){ while(1){ printf(\"w\"); break; } }"
\* an if whose condition holds, and text after it
IfTaken ==
    "int main(){ if(2 > 1){ printf(\"t\"); } printf(\"u\"); }"
\* an else-if chain
ElseIf ==
    "int main(){ if(0){ puts(\"a\"); } else if(1){ puts(\"b\"); } else { puts(\"c\"); } }"
\* a switch
Switch ==
    "int main(){ switch(2){\ncase 1:\nprintf(\"one\");\nbreak;\ncase 2:\nprintf(\"two\");\nbreak;\ndefault:\nprintf(\"d\");\n}\n}"
\* output, then a statement that fails
PartialOutput ==
    "int main(){ printf(\"a\"); x = y; return 0; }"
\* x++ on a variable with a heap cell
Increment ==
    "int main(){ int x=1; x++; return 0; }"
\* x += 2 on a variable with a heap cell
Compound ==
    "int main(){ int x=1; x += 2; return 0; }"
\* x = 5 on a variable with a heap cell
Assign ==
    "int main(){ int x=1; x = 5; return 0; }"
\* a do-while whose condition is false
DoWhileOnce ==
    "int main(){ do { printf(\"x\"); } while(0); return 0; }"
\* a for loop that runs until its condition is false
ForCount ==
    "int main(){ for(int i=0;i<3;i++){ printf(\"%d\", i); } return 0; }"
\* a while loop that runs until its condition is false
NestedWhile ==
    "int main(){ for(int i=0;i<1;i++){ while(i<3){ i++; } } return 0; }"
\* no main function
NoMain ==
    "int foo(){ return 0; }"
\* the empty source
Empty ==
    ""
\* void main
VoidMain ==
    "void main(){ puts(\"v\"); }"
\* main without a body
NoBody ==
    "int main();"
\* main never closed
Unclosed ==
    "int main(){ printf(\"a\");"
\* an inner block closed, main not
UnclosedInner ==
    "int main(){ if(1){ printf(\"x\"); }"
\* a write through an uninitialized pointer
NullWrite ==
    "int main(){ int *p; *p = 1; return 0; }"
\* a read through an address that was never allocated
WildRead ==
    "int main(){ int *p = 4100; int y = *p; return 0; }"
\* a read through the address of a variable
GoodRead ==
    "int main(){ int x=3; int *p=&x; int y=*p; printf(\"%d\", y); return 0; }"
\* a remainder by zero
RemainderByZero ==
    "int main(){ int x = 1 % 0; return 0; }"
\* declarations, an array declaration, address-of, assignments and a
\* pointer write
MemoryUse ==
    "int main(){ int a[2]; int x=1; int *p=&x; int *q=&p; int *r=&x; *p=4; a[1]=5; x = 6; return 0; }"

\* A statement that divides x = 7 by zero, or takes its remainder
ZeroDivision(statement) ==
    "int main(){ int x=7; " \o statement \o "; return 0; }"
ZeroDivisions == {"x /= 0", "x %= 0", "x = x / 0", "x = x % 0"}

\* A call of a library function between two printf statements
LibraryCall(statement) ==
    "int main(){ int x=3; int *p=&x; printf(\"a\"); " \o statement \o "; printf(\"b\"); return 0; }"
SilentCalls == {"scanf(\"%d\", &x)", "gets(s)", "strcmp(s, t)", "srand(42)"}

\* The value of an expression, printed
Evaluate(expr) ==
    "int main(){ int r = " \o expr \o "; printf(\"%d\", r); return 0; }"
\* The value of an expression over the integer variables a, b, c and d
EvaluateOver(a, b, c, d, expr) ==
    "int main(){ int a=" \o to_string(a) \o "; int b=" \o to_string(b)
        \o "; int c=" \o to_string(c) \o "; int d=" \o to_string(d)
        \o "; int r = " \o expr \o "; printf(\"%d\", r); return 0; }"
ParenOperands == {-2, 3}

\* The value of an expression over the integer variables a, b and e
Arithmetic(a, b, e, expr) ==
    "int main(){ int a=" \o to_string(a) \o "; int b=" \o to_string(b)
        \o "; int e=" \o to_string(e)
        \o "; int r = " \o expr \o "; printf(\"%d\", r); return 0; }"
ArithmeticOperands == {-7, 2, 3}
\* Expressions of two operators, and their values in C
ArithmeticForms == {"a + b * e", "a - b - e", "a / b * e", "e-b-a"}
ArithmeticValue(a, b, e, expr) ==
    CASE expr = "a + b * e" -> a + (b * e)
      [] expr = "a - b - e" -> (a - b) - e
      [] expr = "a / b * e" -> TruncDiv(a, b) * e
      [] expr = "e-b-a" -> (e - b) - a
\* The same on literals
LiteralForms == {"2 + 3 * 4", "10 - 4 - 3", "7 / 2 * 3"}
LiteralValue(expr) ==
    CASE expr = "2 + 3 * 4" -> 14
      [] expr = "10 - 4 - 3" -> 3
      [] expr = "7 / 2 * 3" -> 9

\* rand before and after output, and two calls of rand at one length
RandAtLengths ==
    "int main(){ int r = rand(); printf(\"ab\"); int s = rand(); int t = rand(); printf(\"%d %d\", r, s); return 0; }"

\* Expressions of two bitwise operators, and their values in C
BitOperands == {-4, 5, 6}
BitForms == {"a ^ b & e", "a | b ^ e", "a | b & e"}
BitValue(a, b, e, expr) ==
    CASE expr = "a ^ b & e" -> Bitwise("^", a, Bitwise("&", b, e))
      [] expr = "a | b ^ e" -> Bitwise("|", a, Bitwise("^", b, e))
      [] expr = "a | b & e" -> Bitwise("|", a, Bitwise("&", b, e))

\* An if-else on a condition
Branch(condition) ==
    "int main(){ if(" \o condition \o "){ printf(\"t\"); } else { printf(\"f\"); } }"
\* Conditions whose second operand fails when it is evaluated, and is not
\* needed
ShortCircuits == {"0 && 1/0", "1 || 1/0", "0 && u", "1 || u"}
\* Conditions whose operands all evaluate
TotalConditions == {"1 && 0", "1 && 2", "0 || 0", "0 || 3"}

\* for loops: every iteration ends by continue; the first iteration ends
\* by break, and the step would make the condition fail; the condition is
\* false at once; one iteration ends by a continue inside an if
ForContinue ==
    "int main(){ for(int i=0;i<3;i++){ continue; } return 0; }"
ForBreak ==
    "int main(){ for(int i=1; 6/i > 0; i--){ printf(\"%d\", i); break; } }"
ForNever ==
    "int main(){ for(int i=5;i<3;i++){ printf(\"x\"); } }"
ForContinueIf ==
    "int main(){ for(int i=0;i<3;i++){ if(i==1){ continue; } } }"
ForLoops == {ForContinue, ForBreak, ForNever, ForContinueIf, ForCount}

\* An inner loop left by break, and an inner loop whose iterations end by
\* continue, in an outer loop of two iterations
NestedBreak ==
    "int main(){ for(int i=0;i<2;i++){ while(1){ printf(\"%d\", i); break; } } }"
NestedContinue ==
    "int main(){ for(int i=0;i<2;i++){ for(int j=0;j<2;j++){ printf(\"%d%d \", i, j); continue; } } }"

\* A switch whose cases fall through to a break, without default
SwitchOn(v) ==
    "int main(){ switch(" \o v \o "){\nprintf(\"p\");\ncase 1:\nprintf(\"a\");\ncase 2:\nprintf(\"b\");\nbreak;\nprintf(\"x\");\ncase 3:\nprintf(\"c\");\n}\n}"
\* A switch with a default line between its cases
SwitchDefault(v) ==
    "int main(){ switch(" \o v \o "){\ncase 1:\nprintf(\"a\");\nbreak;\ndefault:\nprintf(\"d\");\ncase 5:\nprintf(\"e\");\n}\n}"
SwitchValues == {"1", "2", "3", "4", "5"}

\* A chain of if, else if and else on two conditions, and an if alone
Chain(c1, c2) ==
    "int main(){ if(" \o c1 \o "){ printf(\"A\"); } else if(" \o c2
        \o "){ printf(\"B\"); } else { printf(\"C\"); } }"
IfAlone(c) == "int main(){ if(" \o c \o "){ printf(\"A\"); } }"
\* Conditions: true, false, and one that fails when it is evaluated
ChainConditions == {"2 > 1", "0", "1/0"}

\* A printf of the arguments args
PrintfCall(args) == "int main(){ printf(" \o args \o "); return 0; }"
\* Calls whose specifiers are not in the order of format_specs, with a
\* specifier left over, with a surplus argument, and with a repeated
\* specifier
SpecifierCalls ==
    {"\"%x %d\", 255, 10", "\"%d %d %d\", 1, 2", "\"%d\", 1, 2",
     "\"%o-%i-%d\", 8, 9, 10", "\"%d %d\", 3, 4"}

\* A pointer to x declared by decl, a write through it and a read of x
PointerDeclared(decl) ==
    "int main(){ int x=7; " \o decl \o "; *p = 5; printf(\"%d\", x); return 0; }"
PointerDeclarations == {"int *p = &x", "int* p = &x", "int * p = &x"}

\* An assignment to element i of an array of three, declared before two
\* scalars
ElementAssign(i) ==
    "int main(){ int a[3]; int x=1; int y=2; a[" \o i \o "] = 5; return 0; }"
ElementIndexes == {"0", "1", "2"}

\* A pointer to element i of an array of two, a write and a read through it
ElementPointer(i) ==
    "int main(){ int a[2]; int *p = &a[" \o i \o "]; *p = 9; int y = *p; return 0; }"
PointedIndexes == {"0", "1"}

\* Calls with as many arguments as specifiers, the specifiers of several
\* kinds, in the order of format_specs and against it
PositionalCalls ==
    {"\"%s=%d\", \"bob\", 5", "\"%c%d\", 'k', 7", "\"%d %x\", 10, 255",
     "\"%x %d\", 255, 10"}
\* The same with the arguments held in variables
NamedPrintf ==
    "int main(){ name = \"bob\"; int n = 5; printf(\"%s=%d\", name, n); return 0; }"

\* The value of expr over an array a = {4, 5, 0}, assigned to z and printed
ElementOperand(expr) ==
    "int main(){ int a[3]; a[0] = 4; a[1] = 5; int z = 0; z = " \o expr
        \o "; printf(\"%d\", z); return 0; }"
\* An element on the left and on the right of + and of *, and alone
ElementForms == {"a[1] + 2", "a[1] * 2", "2 + a[1]", "2 * a[1]", "a[1]"}
\* Indexes past the end of the array
ElementsOutOfRange == {"a[3]", "a[3] + 2", "2 + a[3]"}

\* A write through a pointer to x of the value v, then a read of x
PointerWrite(v) ==
    "int main(){ int x=7; int y=9; int *p=&x; *p=" \o v \o "; printf(\"%d\\n\", x); return 0; }"
WrittenValues == {"42", "-3", "y", "0"}

\* A printf of the constant format string s
Printf(s) == "int main(){ printf(\"" \o s \o "\"); return 0; }"
ConstantStrings ==
    {"plain", "two words", "a\\nb", "a\\tb", "a\\rb", "a\\\\b", "a\\\\nb", "'hi'",
     "it's", "100%", "information", "elif", "window"}

Programs ==
    {HelloWorld, ForLoopWithBreak, ElseStatement, WhileCount, WhileBreak, IfTaken, ElseIf, Switch, PartialOutput, Increment, Compound, Assign, DoWhileOnce, ForCount, NestedWhile, NoMain, Empty, VoidMain, NoBody, Unclosed, UnclosedInner, NullWrite, WildRead, GoodRead, RemainderByZero,
     MemoryUse, RandAtLengths}
    \cup {PointerWrite(v) : v \in WrittenValues}
    \cup {ElementOperand(e) : e \in ElementForms \cup ElementsOutOfRange}
    \cup {PrintfCall(a) : a \in PositionalCalls}
    \cup {NamedPrintf}
    \cup {ElementPointer(i) : i \in PointedIndexes}
    \cup {ElementAssign(i) : i \in ElementIndexes}
    \cup {PointerDeclared(d) : d \in PointerDeclarations}
    \cup {PrintfCall(a) : a \in SpecifierCalls}
    \cup {Chain(c1, c2) : c1 \in {"2 > 1", "0"}, c2 \in ChainConditions}
    \cup {IfAlone(c) : c \in {"2 > 1", "0"}}
    \cup {SwitchOn(v) : v \in SwitchValues}
    \cup {SwitchDefault(v) : v \in SwitchValues}
    \cup {NestedBreak, NestedContinue}
    \cup ForLoops
    \cup {Branch(c) : c \in ShortCircuits \cup TotalConditions}
    \cup {Arithmetic(a, b, e, f) : a \in BitOperands, b \in BitOperands, e \in BitOperands, f \in BitForms}
    \cup {Arithmetic(a, b, e, f) : a \in ArithmeticOperands, b \in ArithmeticOperands, e \in ArithmeticOperands, f \in ArithmeticForms}
    \cup {Evaluate(f) : f \in LiteralForms}
    \cup {Evaluate("(2+3)*4")}
    \cup {EvaluateOver(a, b, c, d, "(a+b)*(c+d)") : a \in ParenOperands, b \in ParenOperands, c \in ParenOperands, d \in ParenOperands}
    \cup {LibraryCall(s) : s \in SilentCalls}
    \cup {ZeroDivision(s) : s \in ZeroDivisions}
    \cup {Printf(s) : s \in ConstantStrings}


\* The state in which compile_and_run_c is called on one of the programs
Start(programs) ==
    /\ code \in programs
    /\ status = "start"
    /\ stack = <<>>
    /\ variables = new.variables
    /\ heap = new.heap
    /\ next_address = new.next_address
    /\ address_map = new.address_map
    /\ output = new.output
    /\ loop_break = new.loop_break
    /\ loop_continue = new.loop_continue
    /\ trace = new.trace
    /\ last_access = new.last_access
    /\ error = ""
    /\ result = [success |-> FALSE, output |-> "", error |-> NoneString]
    /\ calls = <<>>

Init == Start(Programs)

\* compile_and_run_c is called: compile_c_code begins execute on a new
\* interpreter
Execute ==
    /\ status = "start"
    /\ Take(compile_c_code(code), <<>>)

\* A call of execute_statements begins: it hands the block to the handler
\* of the first construct it contains, or splits it into statements
ExecuteStatements ==
    /\ status = "running"
    /\ stack # <<>>
    /\ Top.at = "entry"
    /\ Take(call("execute_statements", Self, Top.body), Below)

\* The loop of execute_statements executes its next statement
ExecuteStatement ==
    /\ status = "running"
    /\ stack # <<>>
    /\ Top.at = "statements"
    /\ Take(call("next_statement", Self, Top), Below)

\* A loop tests its condition and enters its body, or is left
LoopIteration ==
    /\ status = "running"
    /\ stack # <<>>
    /\ Top.at = "iteration"
    /\ Take(call("loop_iteration", Self, Top), Below)

\* The body of a loop has returned
LoopAfterBody ==
    /\ status = "running"
    /\ stack # <<>>
    /\ Top.at = "after_body"
    /\ Take(call("loop_after_body", Self, Top), Below)

\* execute has returned, with Ok or with Err: compile_and_run_c builds the
\* result.  (After a panic nothing is returned.)
CompileAndRunC ==
    /\ \/ status = "running" /\ stack = <<>>
       \/ status = "failed"
    /\ result' = compile_and_run_c(status = "running", Self, error)
    /\ status' = "returned"
    /\ UNCHANGED <<code, stack, variables, heap, next_address, address_map, output,
                   loop_break, loop_continue, error, trace, last_access, calls>>

Next ==
    \/ Execute
    \/ ExecuteStatements
    \/ ExecuteStatement
    \/ LoopIteration
    \/ LoopAfterBody
    \/ CompileAndRunC

Spec == Init /\ [][Next]_vars

\* The runs of the loops that never end by themselves
InfiniteWhile ==
    "int main(){ while(1){ } }"
InfiniteFor ==
    "int main(){ for(;1;){ } }"
InitCap == Start({InfiniteWhile, InfiniteFor})
SpecCap == InitCap /\ [][Next]_vars

\* The programs of the behaviours with several calls
CallPrograms ==
    {HelloWorld, ForCount, PartialOutput, PointerWrite("42"), RandAtLengths}

\* compile_and_run_c is called again after it has returned.  The fields
\* of the interpreter that was dropped stay in the state until the call
\* builds its own.
CallAgain ==
    /\ status = "returned"
    /\ Len(calls) + 1 < MaxCalls
    /\ calls' = Append(calls, [code |-> code, result |-> result])
    /\ code' \in CallPrograms
    /\ status' = "start"
    /\ UNCHANGED <<stack, variables, heap, next_address, address_map, output,
                   loop_break, loop_continue, error, result, trace, last_access>>

NextCalls ==
    \/ Execute
    \/ ExecuteStatements
    \/ ExecuteStatement
    \/ LoopIteration
    \/ LoopAfterBody
    \/ CompileAndRunC
    \/ CallAgain
InitCalls == Start(CallPrograms)
SpecCalls == InitCalls /\ [][NextCalls]_vars

C2_PrecedingStatementsRun ==
    status = "returned" =>
        /\ code = ElseStatement => result.success /\ result.output = "Smaller\n"
        /\ code = WhileCount => result.success /\ result.output = "012"

\* C3: statements that follow an if construct in the same block are
\* executed after it: the for loop over i = 0..9 whose body is
\* if(i == 5){break;} followed by printf("%d ", i) outputs "0 1 2 3 4 ".
C3_StatementsAfterIfRun ==
    status = "returned" /\ code = ForLoopWithBreak =>
        result.success /\ result.output = "0 1 2 3 4 "

\* The escapes \n, \t, \r, \0 and \\ of a C string literal, expanded from
\* left to right
RECURSIVE Expanded(_)
Expanded(s) ==
    IF s = "" THEN ""
    ELSE IF Ch(s, 0) = "\\" /\ Len(s) >= 2 /\ Ch(s, 1) \in {"n", "t", "r", "0", "\\"}
    THEN (CASE Ch(s, 1) = "n" -> "\n"
            [] Ch(s, 1) = "t" -> "\t"
            [] Ch(s, 1) = "r" -> "\r"
            [] Ch(s, 1) = "0" -> NUL
            [] Ch(s, 1) = "\\" -> "\\") \o Expanded(SliceFrom(s, 2))
    ELSE Ch(s, 0) \o Expanded(SliceFrom(s, 1))

\* C4: a printf whose only argument is a constant format string without
\* conversion specifiers appends exactly that string with its escapes
\* expanded: no other character is dropped or altered.
C4_PrintfConstantString ==
    \A s \in ConstantStrings :
        status = "returned" /\ code = Printf(s) =>
            result.success /\ result.output = Expanded(s)

\* The statement that the step has just executed, if it executed one
Executed(statement) ==
    /\ Len(trace') = Len(trace) + 1
    /\ trace'[Len(trace')] = statement

\* C5: after int *p=&x, a successful statement *p = v makes the value of
\* x in the environment and the heap cell at the address of x equal to v,
\* and no variable other than x changes; v is a literal or a variable.
C5_PointerWriteReachesVariable ==
    [][\A v \in WrittenValues :
          /\ code = PointerWrite(v)
          /\ Executed("*p=" \o v)
          /\ status' = "running"
          => LET value == IF has(variables, v) THEN variables[v]
                          ELSE VInt(parse_i64(v).v)
             IN  /\ variables["p"] = VPointer(address_map["x"])
                 /\ variables'["x"] = value
                 /\ heap'[address_map'["x"]] = value
                 /\ address_map' = address_map
                 /\ DOMAIN variables' = DOMAIN variables
                 /\ \A other \in DOMAIN variables \ {"x"} :
                        variables'[other] = variables[other]]_vars

\* The run that wrote 42 through p and then read x
C5_WrittenValueRead ==
    /\ code = PointerWrite("42")
    /\ status = "returned"
    /\ variables["x"] = VInt(42)
    /\ heap[address_map["x"]] = VInt(42)
    /\ variables["y"] = VInt(9)
    /\ result.output = "42\n"

\* C6: after every executed statement, every scalar variable that has an
\* entry in address_map has the same value in the environment and in its
\* heap cell, whichever statement modified it.
C6_MirrorAgrees ==
    \A v \in DOMAIN address_map :
        v \in DOMAIN variables /\ variables[v].tag # "Array"
            => variables[v] = heap[address_map[v]]

\* The loops of the current state
LoopFrames ==
    {stack[k] : k \in {j \in 1..Len(stack) : stack[j].at \in {"iteration", "after_body"}}}

\* C7: in one run of a for, while or do-while loop the body executes at
\* most 100,000 times; a loop whose condition becomes false within that
\* many iterations completes normally, and a run stopped by the cap
\* returns the failure 'Loop exceeded maximum iterations (possible
\* infinite loop)'.
C7_LoopsWithinCap ==
    /\ \A frame \in LoopFrames : frame.iterations <= 100000
    /\ status = "returned" /\ code \in {ForCount, NestedWhile, DoWhileOnce}
           => result.success
    /\ status = "returned" /\ error = LoopExceeded => ~result.success

\* Under SpecCap: a loop whose condition stays true is stopped by the cap
\* after 100,000 executions of its body, and the run returns the failure
CapStopsLoop ==
    /\ \A frame \in LoopFrames : frame.iterations <= 100000
    /\ status = "returned" =>
           /\ ~result.success
           /\ result.error = Some(LoopExceeded)

\* C8: the body of do { body } while(cond); is executed at least once
\* even when cond is false on entry, and the construct completes without
\* error when cond is false.
C8_DoWhileBodyRunsOnce ==
    status = "returned" /\ code = DoWhileOnce =>
        /\ result.success
        /\ trace # <<>>
        /\ trace[1] = "printf(\"x\")"
        /\ result.output = "x"

\* The text from main on, the offset of the brace that opens main in it,
\* and whether some closing brace after it balances it
HasMain == contains(code, "int main") \/ contains(code, "void main")
MainText ==
    SliceFrom(code, IF contains(code, "int main") THEN find(code, "int main")
                    ELSE find(code, "void main"))
MainOpens == find(MainText, "{")
Braces(c, from, to) ==
    Cardinality({j \in from..to : Ch(MainText, j) = c})
MainCloses ==
    \E j \in (MainOpens + 1)..(Len(MainText) - 1) :
        /\ Ch(MainText, j) = "}"
        /\ Braces("{", MainOpens, j) = Braces("}", MainOpens, j)
MainUnmatched == HasMain /\ MainOpens # -1 /\ ~MainCloses

\* C9: a source with neither "int main" nor "void main" fails with the
\* error 'No main function found', and one whose opening brace of main has
\* no matching closing brace fails with 'Unmatched braces'; in both cases
\* no statement is executed.
C9_NoMainOrUnmatchedBraces ==
    /\ ~HasMain \/ MainUnmatched => trace = <<>> /\ output = ""
    /\ status = "returned" /\ ~HasMain =>
           /\ ~result.success
           /\ result.error = Some("Error: No main function found")
    /\ status = "returned" /\ MainUnmatched =>
           /\ ~result.success
           /\ result.error = Some("Error: Unmatched braces in main function")

\* The run on a source whose inner block is closed and whose main is not
C9_UnmatchedReported ==
    /\ code = UnclosedInner
    /\ status = "returned"
    /\ ~result.success
    /\ result.error.v = "Error: Unmatched braces in main function"
    /\ trace = <<>>

\* C10: a read or a write through an address that is not a key of heap
\* fails with 'Segmentation fault: invalid memory address 0x<hex>', and
\* leaves heap, address_map and next_address as they were: the run fails
\* with that error and nothing is added to the heap.
C10_InvalidAddressFaults ==
    ~last_access.hit =>
        /\ status \in {"failed", "returned"}
        /\ error = "Segmentation fault: invalid memory address 0x"
                       \o format_x(last_access.addr)
        /\ heap = last_access.heap
        /\ address_map = last_access.address_map
        /\ next_address = last_access.next_address
        /\ last_access.addr \notin DOMAIN heap
        /\ status = "returned" => ~result.success /\ result.error = Some(error)

\* The write through the null pointer of an uninitialized int *p
C10_NullPointerWrite ==
    /\ code = NullWrite
    /\ status = "returned"
    /\ last_access.op = "write"
    /\ last_access.addr = 0
    /\ ~last_access.hit
    /\ heap = <<>>
    /\ result.error.v = "Segmentation fault: invalid memory address 0x0"

\* C11: in every reachable state every address stored in address_map is a
\* key of heap, after declarations, array declarations, address-of
\* evaluations, assignments and pointer writes.
C11_AddressesAllocated ==
    \A v \in DOMAIN address_map : address_map[v] \in DOMAIN heap

\* The end of the run that declared an array and two scalars, took the
\* address of a scalar and of a pointer and wrote through p
C11_MemoryUsed ==
    /\ code = MemoryUse
    /\ status = "returned"
    /\ result.success
    /\ DOMAIN address_map = {"a", "x", "p"}
    /\ last_access.op = "write"
    /\ last_access.hit

\* C12: each of x /= 0, x %= 0, a / 0 and a % 0 makes the run return a
\* failure whose error says 'Division by zero', and x keeps the value it
\* had before the statement.
C12_DivisionByZeroFails ==
    \A s \in ZeroDivisions :
        code = ZeroDivision(s) =>
            /\ status # "panic"
            /\ has(variables, "x") => variables["x"] = VInt(7)
            /\ status = "returned" =>
                   /\ ~result.success
                   /\ result.error.some
                   /\ contains(result.error.v, "Division by zero")

\* C13: a statement that calls scanf, gets, strcmp or srand succeeds and
\* changes nothing: the environment, heap, address_map, next_address, the
\* output and both control flags are as before it, and the statements
\* after it are executed.
C13_SilentCallsChangeNothing ==
    /\ [][\A s \in SilentCalls :
              code = LibraryCall(s) /\ Executed(s) =>
                  /\ status' = "running"
                  /\ UNCHANGED <<variables, heap, address_map, next_address,
                                 output, loop_break, loop_continue>>]_vars
    /\ [](\A s \in SilentCalls :
              code = LibraryCall(s) /\ status = "returned" =>
                  /\ result.success
                  /\ result.output = "ab"
                  /\ trace = <<"int x=3", "int *p=&x", "printf(\"a\")", s,
                               "printf(\"b\")", "return 0">>)

\* The run through srand(42) that went on to print b
C13_AfterSrand ==
    /\ code = LibraryCall("srand(42)")
    /\ status = "returned"
    /\ trace[4] = "srand(42)"
    /\ result.output = "ab"
    /\ variables["x"] = VInt(3)

\* C14: a parenthesised subexpression is evaluated as a unit wherever it
\* is an operand: (2+3)*4 is 20, and for all integers a, b, c, d the
\* value of (a+b)*(c+d) is the product of the two sums.
C14_ParenthesesAreUnits ==
    /\ status = "returned" /\ code = Evaluate("(2+3)*4") =>
           result.success /\ result.output = "20"
    /\ \A a \in ParenOperands, b \in ParenOperands, c \in ParenOperands, d \in ParenOperands :
           status = "returned" /\ code = EvaluateOver(a, b, c, d, "(a+b)*(c+d)") =>
               result.success /\ result.output = to_string((a + b) * (c + d))

\* C15: on operands that are integer literals or declared integer
\* variables, *, / and % bind tighter than binary + and -, and operators
\* of one level associate to the left: a + b * c is a + (b*c), a - b - c
\* is (a-b) - c and a / b * c is (a/b) * c, whatever the variables are
\* called and however the expression is spaced.
C15_ArithmeticPrecedence ==
    /\ \A f \in LiteralForms :
           status = "returned" /\ code = Evaluate(f) =>
               result.success /\ result.output = to_string(LiteralValue(f))
    /\ \A a \in ArithmeticOperands, b \in ArithmeticOperands, e \in ArithmeticOperands :
           \A f \in ArithmeticForms :
               status = "returned" /\ code = Arithmetic(a, b, e, f) =>
                   /\ result.success
                   /\ result.output = to_string(ArithmeticValue(a, b, e, f))

\* Under the same runs: every form in which each - is preceded by a space
\* has its C value
SpacedFormsHold ==
    \A a \in ArithmeticOperands, b \in ArithmeticOperands, e \in ArithmeticOperands :
        \A f \in ArithmeticForms \ {"e-b-a"} :
            status = "returned" /\ code = Arithmetic(a, b, e, f) =>
                /\ result.success
                /\ result.output = to_string(ArithmeticValue(a, b, e, f))

\* C16: compile_and_run_c is deterministic and keeps no state between
\* calls: a call returns the result that every earlier call on the same
\* source returned, whatever was called in between, also for programs
\* that use rand() or write through pointers; the value of rand() depends
\* on the length of the output only and lies in 0..32767.
C16_CallsAreIndependent ==
    /\ status = "returned" =>
           \A k \in 1..Len(calls) :
               calls[k].code = code => calls[k].result = result
    /\ code = RandAtLengths =>
           /\ \A v \in DOMAIN variables : variables[v].n \in 0..32767
           /\ has(variables, "t") => variables["t"] = variables["s"]

\* The third call, on the program of the first, after a call on another
\* program: the pointer write and the value printed are those of the first
C16_SameSourceAgain ==
    /\ Len(calls) = 2
    /\ status = "returned"
    /\ code = PointerWrite("42")
    /\ calls[1].code = code
    /\ calls[2].code = RandAtLengths
    /\ result = calls[1].result
    /\ result.output = "42\n"

\* C17: & binds tighter than ^, which binds tighter than |: for all
\* integers a, b, c the value of a ^ b & c is a ^ (b & c), that of
\* a | b ^ c is a | (b ^ c) and that of a | b & c is a | (b & c).
C17_BitwisePrecedence ==
    \A a \in BitOperands, b \in BitOperands, e \in BitOperands :
        \A f \in BitForms :
            status = "returned" /\ code = Arithmetic(a, b, e, f) =>
                /\ result.success
                /\ result.output = to_string(BitValue(a, b, e, f))

\* Under the same runs: the two forms that begin with | have their C value
OrFormsHold ==
    \A a \in BitOperands, b \in BitOperands, e \in BitOperands :
        \A f \in BitForms \ {"a ^ b & e"} :
            status = "returned" /\ code = Arithmetic(a, b, e, f) =>
                /\ result.success
                /\ result.output = to_string(BitValue(a, b, e, f))

\* C18: the evaluation of a condition short-circuits: in A && B with A
\* false and in A || B with A true, B is not evaluated, so a division by
\* zero or an undeclared identifier in B does not make the condition fail:
\* the if takes the branch that A decides.
C18_ShortCircuit ==
    \A c \in ShortCircuits :
        status = "returned" /\ code = Branch(c) =>
            /\ result.success
            /\ result.output = IF starts_with(c, "0 &&") THEN "f" ELSE "t"

\* Under the same runs: when both operands evaluate, && and || have
\* their truth values
TotalConditionsHold ==
    \A c \in TotalConditions :
        status = "returned" /\ code = Branch(c) =>
            /\ result.success
            /\ result.output = IF c \in {"1 && 2", "0 || 3"} THEN "t" ELSE "f"

\* C19: next_address starts at 0x1000 and never decreases; a step adds 8
\* to it for each cell it allocates (an allocation or the first address-of
\* of a name) and nothing otherwise; an address-of of a name that has an
\* address returns that address and leaves heap and next_address alone;
\* so every key of heap is below next_address and no two names of
\* address_map share an address.
C19_AddressCounter ==
    /\ [](status = "start" => next_address = 4096)
    /\ [][/\ next_address' >= next_address
          /\ next_address' - next_address
                 = 8 * Cardinality(DOMAIN heap' \ DOMAIN heap)]_vars
    /\ [][code = MemoryUse /\ Executed("int *r=&x") =>
              /\ UNCHANGED <<heap, next_address, address_map>>
              /\ variables'["r"] = VPointer(address_map["x"])]_vars
    /\ [](\A addr \in DOMAIN heap : addr < next_address)
    /\ [](\A v \in DOMAIN address_map, w \in DOMAIN address_map :
              address_map[v] = address_map[w] => v = w)

\* The run that allocated three cells and took the address of x twice
C19_ThreeCells ==
    /\ code = MemoryUse
    /\ status = "returned"
    /\ next_address = 4096 + 24
    /\ DOMAIN heap = {4096, 4104, 4112}
    /\ variables["p"] = VPointer(4104)
    /\ variables["r"] = VPointer(4104)

\* The for loop whose condition or body is about to run
ForOnTop == stack # <<>> /\ status = "running" /\ Top.k = "handle_for_loop"

\* C20: in for(init; cond; step) { body }, init is executed once, cond is
\* evaluated before every iteration, and step is executed once after
\* every iteration that does not break, also when the iteration ended by
\* continue; after a break neither step nor cond is evaluated again.
C20_ForLoopOrder ==
    /\ [][ForOnTop /\ Top.at = "after_body" =>
              IF loop_break
              THEN trace' = trace /\ status' = "running" /\ stack' = Below
              ELSE /\ Executed(Top.increment)
                   /\ status' = "running" =>
                          /\ Len(stack') = Len(stack)
                          /\ stack'[Len(stack')].at = "iteration"]_vars
    /\ [][ForOnTop /\ Top.at = "iteration" =>
              /\ trace' = trace
              /\ status' = "running" =>
                     \/ stack' = Below
                     \/ /\ Len(stack') = Len(stack) + 1
                        /\ stack'[Len(stack)].at = "after_body"]_vars
    /\ [](status = "returned" =>
              /\ code \in ForLoops => result.success
              /\ code = ForContinue =>
                     /\ trace = <<"int i=0", "continue", "i++", "continue", "i++",
                                  "continue", "i++">>
                     /\ variables["i"] = VInt(3)
              /\ code = ForBreak =>
                     /\ trace = <<"int i=1", "printf(\"%d\", i)", "break">>
                     /\ variables["i"] = VInt(1)
                     /\ result.output = "1"
              /\ code = ForNever => trace = <<"int i=5">> /\ result.output = ""
              /\ code = ForContinueIf =>
                     /\ trace = <<"int i=0", "i++", "continue", "i++", "i++">>
                     /\ variables["i"] = VInt(3)
              /\ code = ForCount =>
                     /\ trace = <<"int i=0", "printf(\"%d\", i)", "i++",
                                  "printf(\"%d\", i)", "i++", "printf(\"%d\", i)", "i++">>
                     /\ result.output = "012")

\* The loop whose three iterations ended by continue, after its third step
C20_StepAfterContinue ==
    /\ code = ForContinue
    /\ status = "returned"
    /\ result.success
    /\ Len(trace) = 7
    /\ trace[6] = "continue"
    /\ trace[7] = "i++"
    /\ variables["i"] = VInt(3)

\* A loop is on top of the stack and the step returns from it
LoopReturns ==
    /\ status = "running"
    /\ stack # <<>>
    /\ Top.at \in {"iteration", "after_body"}
    /\ status' = "running"
    /\ stack' = Below

\* C21: loop_break and loop_continue are consumed by the innermost loop
\* only: a break or continue executed in an inner loop does not end or
\* skip an iteration of the outer loop, and whenever a loop returns
\* without error both flags are false.
C21_FlagsStayInLoop ==
    /\ [][LoopReturns => ~loop_break' /\ ~loop_continue']_vars
    /\ [](status = "returned" =>
              /\ code = NestedBreak => result.success /\ result.output = "01"
              /\ code = NestedContinue =>
                     result.success /\ result.output = "00 01 10 11 ")

\* The outer loop ran its second iteration after the break of the inner
C21_OuterGoesOn ==
    /\ code = NestedBreak
    /\ status = "returned"
    /\ result.output = "01"
    /\ variables["i"] = VInt(2)
    /\ ~loop_break

\* The statements that the switch of SwitchOn and of SwitchDefault
\* executes on the value v: those from the first line that is the case of
\* v or default: up to the first break; line
SwitchOnTrace(v) ==
    CASE v = "1" -> <<"printf(\"a\")", "printf(\"b\")">>
      [] v = "2" -> <<"printf(\"b\")">>
      [] v = "3" -> <<"printf(\"c\")">>
      [] OTHER -> <<>>
SwitchDefaultTrace(v) ==
    IF v = "1" THEN <<"printf(\"a\")">> ELSE <<"printf(\"d\")", "printf(\"e\")">>

\* C22: in a switch no statement is executed before the first line that
\* is the case of the switch value or default: is reached; from there the
\* statements of that case and of the following cases are executed in
\* source order until a line that is exactly break;, and nothing after
\* it; without an equal case and without default nothing is executed.
C22_SwitchFallsThrough ==
    \A v \in SwitchValues :
        /\ code = SwitchOn(v) =>
               /\ trace \in {<<>>, SwitchOnTrace(v)}
               /\ status = "returned" =>
                      result.success /\ trace = SwitchOnTrace(v)
        /\ code = SwitchDefault(v) =>
               /\ trace \in {<<>>, SwitchDefaultTrace(v)}
               /\ status = "returned" =>
                      result.success /\ trace = SwitchDefaultTrace(v)

\* The switch on 1 fell through case 2 and stopped at the break
C22_FellThrough ==
    /\ code = SwitchOn("1")
    /\ status = "returned"
    /\ result.output = "ab"
    /\ trace = <<"printf(\"a\")", "printf(\"b\")">>

\* C23: in if(c1){A} else if(c2){B} else {C} exactly one body is
\* executed: A when c1 is true, otherwise B when c2 is true, otherwise C;
\* a condition after the first true one is not evaluated (its failure
\* does not show); an if without else whose condition is false executes
\* nothing.
C23_OneBranch ==
    /\ \A c2 \in ChainConditions :
           /\ code = Chain("2 > 1", c2) =>
                  /\ trace \in {<<>>, <<"printf(\"A\")">>}
                  /\ status = "returned" => result.success /\ result.output = "A"
           /\ code = Chain("0", c2) /\ c2 # "1/0" =>
                  /\ trace \in {<<>>, <<IF c2 = "0" THEN "printf(\"C\")"
                                        ELSE "printf(\"B\")">>}
                  /\ status = "returned" =>
                         /\ result.success
                         /\ result.output = IF c2 = "0" THEN "C" ELSE "B"
    /\ code = IfAlone("0") =>
           /\ trace = <<>>
           /\ status = "returned" => result.success /\ result.output = ""
    /\ code = IfAlone("2 > 1") /\ status = "returned" =>
           result.success /\ result.output = "A"

\* The chain whose first condition is false and whose second is true
C23_SecondBranch ==
    /\ code = Chain("0", "2 > 1")
    /\ status = "returned"
    /\ trace = <<"printf(\"B\")">>
    /\ result.output = "B"

\* What the rule of C24 makes of the calls of SpecifierCalls
SpecifierOutput(args) ==
    CASE args = "\"%x %d\", 255, 10" -> "a 255"
      [] args = "\"%d %d %d\", 1, 2" -> "1 2 %d"
      [] args = "\"%d\", 1, 2" -> "1"
      [] args = "\"%o-%i-%d\", 8, 9, 10" -> "12-9-8"
      [] args = "\"%d %d\", 3, 4" -> "3 4"

\* C24: printf takes the specifiers in the order %p %d %i %f %lf %c %s
\* %ld %u %x %o: for each of them, while the text contains it and an
\* unused argument remains, its leftmost occurrence is replaced by the
\* next unused argument; specifiers left over stay in the output as they
\* are, and surplus arguments are ignored.
C24_SpecifierOrder ==
    \A a \in SpecifierCalls :
        status = "returned" /\ code = PrintfCall(a) =>
            result.success /\ result.output = SpecifierOutput(a)

\* The call in which %d, though second in the text, took the first argument
C24_DecimalFirst ==
    /\ code = PrintfCall("\"%x %d\", 255, 10")
    /\ status = "returned"
    /\ result.output = "a 255"

\* C25: a pointer declaration is recognised whether the * is attached to
\* the name or to the type: int *p = &x and int* p = &x both leave a
\* variable named p that holds Pointer(address of x), so that a following
\* *p = v writes x.
C25_PointerDeclarationForms ==
    \A d \in PointerDeclarations :
        code = PointerDeclared(d) =>
            /\ Len(trace) >= 2 =>
                   /\ has(variables, "p")
                   /\ variables["p"] = VPointer(address_map["x"])
                   /\ DOMAIN variables = {"x", "p"}
            /\ status = "returned" =>
                   /\ result.success
                   /\ result.output = "5"
                   /\ variables["x"] = VInt(5)

\* C26: an in-range element assignment a[i] = v sets element i of a to v
\* and changes nothing else: the value and the heap cell of every other
\* variable and the other elements of a are as before, and the heap cell
\* of a still holds an array.
C26_ElementAssignmentFrame ==
    [][\A i \in ElementIndexes :
           code = ElementAssign(i) /\ Executed("a[" \o i \o "] = 5") =>
               LET k == parse_i64(i).v + 1
               IN  /\ status' = "running"
                   /\ variables'["a"].a[k] = VInt(5)
                   /\ \A j \in 1..3 :
                          j # k => variables'["a"].a[j] = variables["a"].a[j]
                   /\ \A v \in {"x", "y"} :
                          /\ variables'[v] = variables[v]
                          /\ heap'[address_map'[v]] = heap[address_map[v]]
                   /\ address_map' = address_map
                   /\ heap'[address_map'["a"]].tag = "Array"]_vars

\* C27: for an array a of length N and 0 <= i < N, &a[i] is the address
\* of a plus 8*i and denotes element i: after p = &a[i], *p = v sets a[i]
\* to v while a stays an array of length N and no other variable changes,
\* and reading *p yields the value of a[i].
C27_ElementAddress ==
    \A i \in PointedIndexes :
        code = ElementPointer(i) =>
            LET k == parse_i64(i).v
            IN  /\ has(variables, "p") =>
                       variables["p"] = VPointer(address_map["a"] + 8 * k)
                /\ Len(trace) >= 3 =>
                       /\ status \in {"running", "returned"}
                       /\ variables["a"].tag = "Array"
                       /\ Len(variables["a"].a) = 2
                       /\ variables["a"].a[k + 1] = VInt(9)
                       /\ variables["a"].a[2 - k] = VInt(0)
                /\ status = "returned" =>
                       /\ result.success
                       /\ variables["y"] = VInt(9)

\* Under the same runs: the pointer holds the address of a plus 8*i
ElementAddressComputed ==
    \A i \in PointedIndexes :
        code = ElementPointer(i) /\ has(variables, "p") =>
            variables["p"] = VPointer(address_map["a"] + 8 * parse_i64(i).v)

\* The runs of every program and of the loop that never ends by itself
InitTerminates == Start(Programs \cup {InfiniteWhile})
SpecTerminates == InitTerminates /\ [][Next]_vars

\* C28: compile_and_run_c terminates on every source: the evaluators
\* recurse on shorter texts, every loop is stopped by the cap of 100,000
\* iterations and the substitution loop of printf uses up an argument on
\* every pass, so no run takes steps for ever: from some point on the
\* state of the interpreter changes no more.
C28_EveryRunEnds ==
    <>[][FALSE]_vars

\* The end of the run of while(1){ }, stopped by the cap and by nothing else
C28_CapEndedTheRun ==
    /\ code = InfiniteWhile
    /\ status = "returned"
    /\ stack = <<>>
    /\ result.error = Some(LoopExceeded)
    /\ trace = <<>>

\* The output of the calls of PositionalCalls with the j-th specifier
\* replaced by the j-th argument
PositionalOutput(args) ==
    CASE args = "\"%s=%d\", \"bob\", 5" -> "bob=5"
      [] args = "\"%c%d\", 'k', 7" -> "k7"
      [] args = "\"%d %x\", 10, 255" -> "10 ff"
      [] args = "\"%x %d\", 255, 10" -> "ff 10"

\* C29: printf pairs arguments with specifiers by position: with k
\* specifiers and k arguments the j-th specifier from the left is replaced
\* by the formatted j-th argument, whatever the kinds of the specifiers;
\* printf("%s=%d", name, n) prints the string first and the integer second.
C29_PairedByPosition ==
    /\ \A a \in PositionalCalls :
           status = "returned" /\ code = PrintfCall(a) =>
               result.success /\ result.output = PositionalOutput(a)
    /\ status = "returned" /\ code = NamedPrintf =>
           result.success /\ result.output = "bob=5"

\* The value of the forms of ElementForms with a[1] = 5
ElementValue(expr) ==
    CASE expr = "a[1] + 2" -> "7"
      [] expr = "a[1] * 2" -> "10"
      [] expr = "2 + a[1]" -> "7"
      [] expr = "2 * a[1]" -> "10"
      [] expr = "a[1]" -> "5"

\* C30: an array element used as an operand contributes its value to the
\* whole expression: a[i] + k is the value of a[i] plus k and a[i] * k the
\* value of a[i] times k, the same as k + a[i] and k * a[i]; an index out
\* of range gives an error rather than a value.
C30_ElementAsOperand ==
    /\ \A e \in ElementForms :
           status = "returned" /\ code = ElementOperand(e) =>
               result.success /\ result.output = ElementValue(e)
    /\ \A e \in ElementsOutOfRange :
           status = "returned" /\ code = ElementOperand(e) => ~result.success

====
